----------------------------- MODULE WorkerProofs ------------------------------
(***************************************************************************)
(* Proofs about the handlers that a worker runs (module Worker), for any   *)
(* number of deliveries, batches, files, runs, records, dispatchers,       *)
(* retries, crashes and failed statements, and whatever the lease: what    *)
(* each kind of task promises its user.                                    *)
(*                                                                         *)
(* No rule of the outbox is assumed for that but that its rows stay.  A    *)
(* claim may expire at any moment and two workers may hold the same event, *)
(* so each handler has to keep its promise by what its own transactions    *)
(* check.                                                                  *)
(*                                                                         *)
(* The last part adds the outbox: the invariant of OutboxProofs holds with *)
(* the handlers in its loop, and no event is published whose task is still *)
(* to be done.                                                             *)
(***************************************************************************)
EXTENDS Worker, FiniteSetTheorems, TLAPS

-----------------------------------------------------------------------------
(* CSV imports: the table holds the first rows of a file, each once.       *)

JobType ==
  [ status   : {"absent", "staging"} \union C!Active \union C!Terminal,
    mapped   : BOOLEAN,
    staged   : 0 .. MaxRows,
    imported : 0 .. MaxRows ]

ImportTypes ==
  /\ length \in [Files -> 0 .. MaxRows]
  /\ job \in [Files -> JobType]
  /\ staged \in [Files -> SUBSET (1 .. MaxRows)]
  /\ created \in [Files -> [1 .. MaxRows -> Nat]]

\* What a job says of the file, by its status: rows are staged one after the
\* other, none is imported before all are staged, and they stay staged while
\* the import is active.
JobFits(f) ==
  /\ job[f].imported <= job[f].staged
  /\ job[f].staged <= length[f]
  /\ job[f].status = "absent" => job[f].staged = 0
  /\ job[f].status \in {"absent", "staging"} =>
       job[f].imported = 0 /\ staged[f] = 1 .. job[f].staged
  /\ job[f].status \in C!Active =>
       job[f].staged = length[f] /\ staged[f] = 1 .. length[f]

ImportIInv ==
  /\ ImportTypes
  /\ \A f \in Files : JobFits(f)
  /\ RowsComeOnce

\* The rows of a transaction are the first of the remaining ones: with a row
\* it takes every remaining row before it.
LEMMA RowsInOrder ==
  ASSUME NEW f \in Files, IsFiniteSet(staged[f]),
         NEW n \in C!NextRows(f), NEW m \in C!Remaining(f), m < n,
         staged[f] \subseteq Nat
  PROVE  m \in C!NextRows(f)
<1> DEFINE Before(k) == {i \in C!Remaining(f) : i < k}
<1>1. C!Remaining(f) \subseteq staged[f] /\ n \in C!Remaining(f)
  BY DEF C!Remaining, C!NextRows
<1>2. Before(m) \in SUBSET Before(n) /\ Before(n) \in SUBSET staged[f]
  BY <1>1
<1>3. IsFiniteSet(Before(n))
  BY <1>2, FS_Subset
<1>4. IsFiniteSet(Before(m)) /\ Cardinality(Before(m)) <= Cardinality(Before(n))
  BY <1>2, <1>3, FS_Subset
<1>5. Cardinality(Before(m)) \in Nat /\ Cardinality(Before(n)) \in Nat
  BY <1>3, <1>4, FS_CardinalityType
<1>6. \A rows : C!Cardinality(rows) = Cardinality(rows)
  BY DEF C!Cardinality, Cardinality
<1>7. Cardinality(Before(n)) < ApplySize
  BY <1>6 DEF C!NextRows
<1>8. Cardinality(Before(m)) < ApplySize
  BY <1>4, <1>5, <1>7, WorkerAssumption
<1>9. QED
  BY <1>6, <1>8 DEF C!NextRows

\* A transaction that creates rows.
LEMMA RowsApplied ==
  ASSUME ImportIInv, NEW d \in Dispatchers, NEW f \in Files, C!ApplyRows(d, f)
  PROVE  ImportIInv'
<1>1. /\ ImportTypes /\ JobFits(f) /\ job[f].status = "running"
      /\ f \in Files /\ MaxRows \in Nat
  BY WorkerAssumption DEF ImportIInv, C!ApplyRows, C!MayApply
<1> DEFINE i == job[f].imported
           l == length[f]
<1>2. i \in Nat /\ l \in 0 .. MaxRows /\ staged[f] = 1 .. l
  BY <1>1 DEF ImportTypes, JobType, JobFits, C!Active
<1>3. C!Remaining(f) = (i + 1) .. l
  BY <1>2 DEF C!Remaining
<1>4. PICK last \in C!NextRows(f) :
        /\ \A n \in C!NextRows(f) : n <= last
        /\ job' = [job EXCEPT ![f].imported = last]
  BY DEF C!ApplyRows
<1>5. last \in (i + 1) .. l
  BY <1>3, <1>4 DEF C!NextRows
<1>6. C!NextRows(f) = (i + 1) .. last
  <2>1. \A n \in C!NextRows(f) : n \in (i + 1) .. last
    BY <1>2, <1>3, <1>4, <1>5 DEF C!NextRows
  <2>2. ASSUME NEW n \in (i + 1) .. last, n # last PROVE n \in C!NextRows(f)
    <3>1. n \in C!Remaining(f) /\ n < last
      BY <1>2, <1>3, <1>5, <2>2
    <3>2. IsFiniteSet(staged[f]) /\ staged[f] \subseteq Nat
      <4>1. 1 \in Int /\ l \in Int /\ 1 .. l \subseteq Nat
        BY <1>1, <1>2
      <4>2. IsFiniteSet(1 .. l)
        BY <4>1, FS_Interval
      <4>3. QED
        BY <1>2, <4>1, <4>2
    <3>3. QED
      BY <1>4, <3>1, <3>2, RowsInOrder
  <2>3. QED
    BY <1>4, <2>1, <2>2
<1>7. /\ created' = [created EXCEPT ![f] =
           [n \in 1 .. MaxRows |-> IF n \in (i + 1) .. last THEN @[n] + 1 ELSE @[n]]]
      /\ UNCHANGED <<length, staged>>
  BY <1>6 DEF C!ApplyRows
<1>14. last \in 0 .. MaxRows /\ job[f] \in JobType
  BY <1>1, <1>2, <1>5 DEF ImportTypes
<1> DEFINE new == [job[f] EXCEPT !.imported = last]
<1>8. /\ new.imported = last /\ new.staged = job[f].staged
      /\ new.status = job[f].status
      /\ new \in JobType
  BY <1>14 DEF JobType
<1>9. job' = [job EXCEPT ![f] = new]
  BY <1>1, <1>4 DEF ImportTypes
<1> HIDE DEF new
<1>10. job'[f] = new /\ \A g \in Files \ {f} : job'[g] = job[g]
  BY <1>1, <1>9 DEF ImportTypes
<1>11. ImportTypes'
  <2>1. [n \in 1 .. MaxRows |->
           IF n \in (i + 1) .. last THEN created[f][n] + 1 ELSE created[f][n]]
          \in [1 .. MaxRows -> Nat]
    BY <1>1 DEF ImportTypes
  <2>2. created' \in [Files -> [1 .. MaxRows -> Nat]]
    BY <1>1, <1>7, <2>1 DEF ImportTypes
  <2>3. QED
    BY <1>1, <1>7, <1>8, <1>9, <1>14, <2>2 DEF ImportTypes
<1>12. \A g \in Files : JobFits(g)'
  <2>1. JobFits(f)'
    BY <1>1, <1>2, <1>5, <1>7, <1>8, <1>10 DEF JobFits, C!Active
  <2>2. QED
    BY <1>7, <1>10, <2>1 DEF JobFits, ImportIInv
<1>13. RowsComeOnce'
  <2>1. \A n \in 1 .. MaxRows : created[f][n] = IF n <= i THEN 1 ELSE 0
    BY <1>1 DEF ImportIInv, RowsComeOnce, C!RowsComeOnce
  <2>2. ASSUME NEW n \in 1 .. MaxRows
        PROVE  created'[f][n] = IF n <= last THEN 1 ELSE 0
    <3>1. created'[f][n] =
            IF n \in (i + 1) .. last THEN created[f][n] + 1 ELSE created[f][n]
      BY <1>1, <1>7 DEF ImportTypes
    <3>2. QED
      BY <1>2, <1>5, <2>1, <3>1
  <2>3. \A g \in Files \ {f} : created'[g] = created[g]
    BY <1>1, <1>7 DEF ImportTypes
  <2>4. QED
    BY <1>1, <1>7, <1>8, <1>10, <2>2, <2>3 DEF RowsComeOnce, C!RowsComeOnce, ImportIInv
<1>15. QED
  BY <1>11, <1>12, <1>13 DEF ImportIInv

\* A step that changes at most one job, in its status and in how many of its
\* rows are staged.
LEMMA JobChanged ==
  ASSUME ImportIInv, NEW f \in Files, NEW new, job' = [job EXCEPT ![f] = new],
         new \in JobType,
         new.imported = job[f].imported,
         new.status = "succeeded" => new.imported = length'[f],
         length' \in [Files -> 0 .. MaxRows],
         staged' \in [Files -> SUBSET (1 .. MaxRows)],
         JobFits(f)', created' = created,
         \A g \in Files \ {f} : length'[g] = length[g] /\ staged'[g] = staged[g]
  PROVE  ImportIInv'
<1>1. ImportTypes
  BY DEF ImportIInv
<1>2. job'[f] = new /\ \A g \in Files \ {f} : job'[g] = job[g]
  BY <1>1 DEF ImportTypes
<1>3. ImportTypes'
  BY <1>1 DEF ImportTypes
<1>4. \A g \in Files : JobFits(g)'
  BY <1>2 DEF JobFits, ImportIInv
<1>5. RowsComeOnce'
  BY <1>2 DEF RowsComeOnce, C!RowsComeOnce, ImportIInv
<1>6. QED
  BY <1>3, <1>4, <1>5 DEF ImportIInv

\* A step that leaves the files, the jobs and the rows alone.
LEMMA ImportsKept ==
  ASSUME ImportIInv, UNCHANGED importVars PROVE ImportIInv'
BY DEF ImportIInv, ImportTypes, JobFits, RowsComeOnce, C!RowsComeOnce, importVars

\* The steps of the upload route.
LEMMA UploadStep ==
  ASSUME ImportIInv, NEW f \in Files, C!Upload(f) PROVE ImportIInv'
<1>1. /\ ImportTypes /\ JobFits(f) /\ MaxRows \in Nat
      /\ job[f] \in JobType /\ length[f] \in 0 .. MaxRows
      /\ staged[f] \subseteq 1 .. MaxRows
  BY WorkerAssumption DEF ImportIInv, ImportTypes
<1>2. ASSUME NEW n \in 1 .. MaxRows, C!CreateJob(f, n) PROVE ImportIInv'
  <2> DEFINE new == [job[f] EXCEPT !.status = "staging"]
  <2>1. /\ new \in JobType /\ new.status = "staging"
        /\ new.imported = job[f].imported /\ new.staged = job[f].staged
    BY <1>1 DEF JobType
  <2>2. /\ job' = [job EXCEPT ![f] = new] /\ job[f].status = "absent"
        /\ length' = [length EXCEPT ![f] = n]
        /\ staged' = staged /\ created' = created
    BY <1>2 DEF C!CreateJob
  <2> HIDE DEF new
  <2>3. job'[f] = new
    BY <1>1, <2>2 DEF ImportTypes
  <2>4. /\ job[f].staged = 0 /\ n \in 0 .. MaxRows
        /\ length'[f] = n /\ length' \in [Files -> 0 .. MaxRows]
        /\ \A g \in Files \ {f} : length'[g] = length[g]
    BY <1>1, <2>2 DEF JobFits, ImportTypes
  <2>5. JobFits(f)'
    <3>1. job[f].imported = 0 /\ staged'[f] = 1 .. job[f].staged
      BY <1>1, <2>2 DEF JobFits
    <3>2. 0 <= n
      BY <2>4
    <3>3. QED
      BY <2>1, <2>3, <2>4, <3>1, <3>2 DEF JobFits, C!Active
  <2>6. QED
    BY <1>1, <2>1, <2>2, <2>4, <2>5, JobChanged DEF ImportTypes
<1>3. CASE C!StageRow(f)
  <2> DEFINE n == job[f].staged + 1
             new == [job[f] EXCEPT !.staged = n]
  <2>1. /\ job[f].staged < length[f] /\ job[f].status = "staging"
        /\ length' = length /\ created' = created
    BY <1>3 DEF C!StageRow
  <2>2. /\ n \in 1 .. MaxRows /\ n <= length[f]
        /\ (1 .. job[f].staged) \union {n} = 1 .. n
    BY <1>1, <2>1 DEF JobType
  <2>3. /\ new \in JobType /\ new.status = "staging"
        /\ new.imported = job[f].imported /\ new.staged = n
    BY <1>1, <2>1, <2>2 DEF JobType
  <2>4. /\ job' = [job EXCEPT ![f] = new]
        /\ staged' = [staged EXCEPT ![f] = @ \union {n}]
    BY <1>3 DEF C!StageRow
  <2> HIDE DEF n, new
  <2>5. /\ job'[f] = new /\ staged'[f] = 1 .. n
        /\ staged' \in [Files -> SUBSET (1 .. MaxRows)]
    BY <1>1, <2>1, <2>2, <2>4 DEF ImportTypes, JobFits
  <2>6. JobFits(f)'
    BY <1>1, <2>1, <2>2, <2>3, <2>5 DEF JobFits, C!Active, JobType
  <2>7. QED
    BY <1>1, <2>1, <2>3, <2>4, <2>5, <2>6, JobChanged DEF ImportTypes
<1>4. CASE C!QueueImport(f)
  <2> DEFINE new == [job[f] EXCEPT !.status = "queued"]
  <2>1. /\ new \in JobType /\ new.status = "queued"
        /\ new.imported = job[f].imported /\ new.staged = job[f].staged
    BY <1>1 DEF JobType, C!Active
  <2>2. /\ job' = [job EXCEPT ![f] = new] /\ job[f].status = "staging"
        /\ job[f].staged = length[f]
        /\ UNCHANGED <<length, staged, created>>
    BY <1>4 DEF C!QueueImport
  <2> HIDE DEF new
  <2>3. job'[f] = new
    BY <1>1, <2>2 DEF ImportTypes
  <2>4. JobFits(f)'
    BY <1>1, <2>1, <2>2, <2>3 DEF JobFits, C!Active
  <2>5. QED
    BY <1>1, <2>1, <2>2, <2>4, JobChanged DEF ImportTypes
<1>5. CASE C!FailUpload(f)
  <2> DEFINE new == [job[f] EXCEPT !.status = "failed"]
  <2>1. /\ new \in JobType /\ new.status = "failed"
        /\ new.imported = job[f].imported /\ new.staged = job[f].staged
    BY <1>1 DEF JobType, C!Terminal
  <2>2. /\ job' = [job EXCEPT ![f] = new]
        /\ staged' = [staged EXCEPT ![f] = {}]
        /\ UNCHANGED <<length, created>>
    BY <1>5 DEF C!FailUpload
  <2> HIDE DEF new
  <2>3. job'[f] = new
    BY <1>1, <2>2 DEF ImportTypes
  <2>4. JobFits(f)'
    BY <1>1, <2>1, <2>2, <2>3 DEF JobFits, C!Active
  <2>5. QED
    BY <1>1, <2>1, <2>2, <2>4, JobChanged DEF ImportTypes
<1>6. QED
  BY <1>2, <1>3, <1>4, <1>5 DEF C!Upload

\* The steps of the handler.
LEMMA ImportHandlerStep ==
  ASSUME ImportIInv, NEW d \in Dispatchers, NEW f \in Files, C!Handler(d, f)
  PROVE  ImportIInv'
<1>1. /\ ImportTypes /\ JobFits(f) /\ MaxRows \in Nat
      /\ job[f] \in JobType /\ length[f] \in 0 .. MaxRows
      /\ staged[f] \subseteq 1 .. MaxRows
  BY WorkerAssumption DEF ImportIInv, ImportTypes
<1>2. ASSUME C!Prepare(d, f) PROVE ImportIInv'
  <2>1. /\ C!Prepared(f) \in JobType /\ C!Prepared(f).status = "running"
        /\ C!Prepared(f).imported = job[f].imported
        /\ C!Prepared(f).staged = job[f].staged
    BY <1>1 DEF JobType, C!Prepared, C!Active
  <2>2. /\ job' = [job EXCEPT ![f] = C!Prepared(f)] /\ job[f].status \in C!Active
        /\ UNCHANGED <<length, staged, created>>
    BY <1>2 DEF C!Prepare, C!MayPrepare
  <2>3. job'[f] = C!Prepared(f)
    BY <1>1, <2>2 DEF ImportTypes
  <2>4. JobFits(f)'
    BY <1>1, <2>1, <2>2, <2>3 DEF JobFits, C!Active
  <2>5. QED
    BY <1>1, <2>1, <2>2, <2>4, JobChanged DEF ImportTypes
<1>3. ASSUME C!PrepareRefused(d, f) \/ C!PrepareOver(d, f) \/ C!ApplyRefused(d, f)
      PROVE  ImportIInv'
  <2>1. UNCHANGED importVars
    BY <1>3 DEF C!PrepareRefused, C!PrepareOver, C!ApplyRefused, C!tables, importVars
  <2>2. QED
    BY <2>1, ImportsKept
<1>4. ASSUME C!ApplyRows(d, f) PROVE ImportIInv'
  BY <1>4, RowsApplied
<1>5. ASSUME C!Complete(d, f) PROVE ImportIInv'
  <2> DEFINE new == [job[f] EXCEPT !.status = "succeeded"]
  <2>1. /\ new \in JobType /\ new.status = "succeeded"
        /\ new.imported = job[f].imported /\ new.staged = job[f].staged
    BY <1>1 DEF JobType, C!Terminal
  <2>2. /\ job' = [job EXCEPT ![f] = new] /\ job[f].status = "running"
        /\ job[f].imported = job[f].staged
        /\ staged' = [staged EXCEPT ![f] = {}]
        /\ UNCHANGED <<length, created>>
    BY <1>5 DEF C!Complete, C!MayApply
  <2> HIDE DEF new
  <2>3. job'[f] = new /\ job[f].imported = length[f]
    BY <1>1, <2>2 DEF ImportTypes, JobFits, C!Active
  <2>4. JobFits(f)'
    BY <1>1, <2>1, <2>2, <2>3 DEF JobFits, C!Active
  <2>5. QED
    BY <1>1, <2>1, <2>2, <2>3, <2>4, JobChanged DEF ImportTypes
<1>6. ASSUME C!Fail(d, f) PROVE ImportIInv'
  <2>1. PICK status \in {job[f].status, "queued", "failed"} :
          /\ job' = [job EXCEPT ![f].status = status]
          /\ status # job[f].status => job[f].status \in C!Active
          /\ UNCHANGED <<length, staged, created>>
    BY <1>6 DEF C!Fail
  <2> DEFINE new == [job[f] EXCEPT !.status = status]
  <2>2. /\ new \in JobType /\ new.status = status
        /\ new.imported = job[f].imported /\ new.staged = job[f].staged
    BY <1>1 DEF JobType, C!Terminal, C!Active
  <2>3. job' = [job EXCEPT ![f] = new]
    BY <1>1, <2>1 DEF ImportTypes
  <2> HIDE DEF new
  <2>4. job'[f] = new
    BY <1>1, <2>3 DEF ImportTypes
  <2>5. JobFits(f)'
    BY <1>1, <2>1, <2>2, <2>4 DEF JobFits, C!Active
  <2>6. new.status = "succeeded" => new.imported = length'[f]
    BY <1>1, <2>1, <2>2 DEF ImportIInv, RowsComeOnce, C!RowsComeOnce, C!Active
  <2>7. QED
    BY <1>1, <2>1, <2>2, <2>3, <2>5, <2>6, JobChanged DEF ImportTypes
<1>7. QED
  BY <1>2, <1>3, <1>4, <1>5, <1>6 DEF C!Handler

\* Every step of the worker.
LEMMA ImportStep ==
  ASSUME ImportIInv, [Next]_vars PROVE ImportIInv'
<1>1. ASSUME UNCHANGED importVars PROVE ImportIInv'
  BY <1>1, ImportsKept
<1>2. ASSUME C!Next PROVE ImportIInv'
  <2>1. ASSUME NEW d \in Dispatchers,
               \/ C!Dispatch(d)
               \/ C!Settle(d)
               \/ C!Crash(d)
               \/ \E f \in Files : C!StorageFault(d, f)
        PROVE  ImportIInv'
    <3>1. UNCHANGED importVars
      BY <2>1 DEF C!Dispatch, C!Settle, C!Crash, C!StorageFault, C!local, C!tables,
                  importVars
    <3>2. QED
      BY <3>1, ImportsKept
  <2>2. ASSUME C!Tick PROVE ImportIInv'
    <3>1. UNCHANGED importVars
      BY <2>2 DEF C!Tick, C!local, C!tables, importVars
    <3>2. QED
      BY <3>1, ImportsKept
  <2>3. QED
    BY <1>2, <2>1, <2>2, UploadStep, ImportHandlerStep DEF C!Next, C!Work
<1>3. QED
  BY <1>1, <1>2 DEF Next, Webhook, Batch, Import, Source, vars

\* No import has been uploaded at first.
LEMMA ImportsBegin ==
  Init => ImportIInv
<1>1. ASSUME C!ImportInit PROVE ImportIInv
  <2>1. 1 .. 0 = {} /\ MaxRows \in Nat
    BY WorkerAssumption
  <2>2. ImportTypes
    BY <1>1, <2>1 DEF C!ImportInit, ImportTypes, JobType
  <2>3. \A f \in Files : JobFits(f)
    BY <1>1, <2>1 DEF C!ImportInit, JobFits, C!Active
  <2>4. RowsComeOnce
    BY <1>1, <2>1 DEF C!ImportInit, RowsComeOnce, C!RowsComeOnce
  <2>5. QED
    BY <2>2, <2>3, <2>4 DEF ImportIInv
<1>2. QED
  BY <1>1 DEF Init

\* Whatever is uploaded, retried, redelivered or applied by two workers at
\* once, the table holds the first rows of each file, each once, as many as
\* its import counts, and all of them after its success.
THEOREM RowsCome == Spec => []RowsComeOnce
<1>1. Init => ImportIInv
  BY ImportsBegin
<1>2. ImportIInv /\ [Next]_vars => ImportIInv'
  BY ImportStep
<1>3. ImportIInv => RowsComeOnce
  BY DEF ImportIInv
<1>4. QED
  BY <1>1, <1>2, <1>3, PTL DEF Spec

-----------------------------------------------------------------------------
(* What every task asks of the outbox: a row stays once it is inserted.    *)

\* A function on the events of a kind, whose values are rows with a state.
Rows(Events) ==
  /\ outbox = [e \in Events |-> outbox[e]]
  /\ \A e \in Events : "state" \in DOMAIN outbox[e]

RowsStay(Events) ==
  /\ Rows(Events)'
  /\ \A e \in Events : outbox[e].state # "absent" => outbox'[e].state # "absent"

\* What a new row of an event leaves of the other rows.
RowInserted(Events, e) ==
  /\ RowsStay(Events)
  /\ outbox[e].state = "absent" /\ outbox'[e].state = "pending"

-----------------------------------------------------------------------------
(* Webhook deliveries: an outcome is final.                                *)

DeliveryIInv ==
  kind = "webhook_delivery" =>
    /\ Rows(Deliveries)
    /\ delivery \in [Deliveries -> {"absent"} \union D!Active \union D!Terminal]
    /\ \A e \in Deliveries : delivery[e] # "absent" => outbox[e].state # "absent"

\* The steps of the outbox that a delivery takes keep its rows.
LEMMA DeliveryRows ==
  ASSUME Rows(Deliveries)
  PROVE  /\ \A e \in Deliveries : D!O!Enqueue(e) => RowInserted(Deliveries, e)
         /\ \A d \in Dispatchers :
              D!O!Claim(d) \/ D!Settle(d) \/ D!O!Crash(d) => RowsStay(Deliveries)
         /\ D!O!Tick => RowsStay(Deliveries)
<1> USE DEF Rows, RowsStay, RowInserted
<1>1. ASSUME NEW e \in Deliveries, D!O!Enqueue(e) PROVE RowInserted(Deliveries, e)
  BY <1>1 DEF D!O!Enqueue
<1>2. ASSUME NEW d \in Dispatchers, D!O!Claim(d) PROVE RowsStay(Deliveries)
  BY <1>2 DEF D!O!Claim
<1>3. ASSUME NEW d \in Dispatchers, NEW e \in Deliveries, D!O!Publish(d, e)
      PROVE  RowsStay(Deliveries)
  BY <1>3 DEF D!O!Publish, D!O!Released
<1>4. ASSUME NEW d \in Dispatchers, NEW e \in Deliveries, D!O!Retry(d, e)
      PROVE  RowsStay(Deliveries)
  BY <1>4 DEF D!O!Retry, D!O!Released
<1>5. ASSUME UNCHANGED outbox PROVE RowsStay(Deliveries)
  BY <1>5
<1>6. ASSUME D!O!Tick PROVE RowsStay(Deliveries)
  BY <1>6 DEF D!O!Tick
<1>7. QED
  BY <1>1, <1>2, <1>3, <1>4, <1>5, <1>6
  DEF D!Settle, D!O!LostClaim, D!O!StorageError, D!O!Crash

\* What a step does to the status of a delivery.
DeliveryMoves(e) ==
  /\ delivery[e] \in D!Terminal => delivery'[e] = delivery[e]
  /\ delivery'[e] # delivery[e] => outbox'[e].state # "absent"

DeliveriesKept ==
  /\ delivery' \in [Deliveries -> {"absent"} \union D!Active \union D!Terminal]
  /\ RowsStay(Deliveries)
  /\ \A e \in Deliveries : DeliveryMoves(e)

\* The status of one delivery changes, which is not over and has its row.
LEMMA DeliveryChanged ==
  ASSUME delivery \in [Deliveries -> {"absent"} \union D!Active \union D!Terminal],
         RowsStay(Deliveries), NEW e \in Deliveries,
         outbox'[e].state # "absent",
         NEW value \in {"absent"} \union D!Active \union D!Terminal,
         value # delivery[e] => delivery[e] \notin D!Terminal,
         delivery' = [delivery EXCEPT ![e] = value]
  PROVE  DeliveriesKept
BY DEF DeliveriesKept, DeliveryMoves

\* The steps of a handler of deliveries.
LEMMA DeliveryHandlerStep ==
  ASSUME DeliveryIInv, kind = "webhook_delivery",
         NEW d \in Dispatchers, NEW e \in Deliveries,
         D!Handler(d, e) \/ D!RecordThenFault(d, e) \/ D!StorageFault(d, e)
  PROVE  DeliveriesKept
<1>1. /\ Rows(Deliveries)
      /\ delivery[e] # "absent" => outbox[e].state # "absent"
      /\ delivery \in [Deliveries -> {"absent"} \union D!Active \union D!Terminal]
  BY DEF DeliveryIInv
<1>2. outbox' = outbox
  BY DEF D!Handler, D!Begin, D!BeginOver, D!Load, D!Send, D!Record, D!RecordRefused,
         D!Fail, D!RecordThenFault, D!StorageFault, D!outboxVars
<1>3. RowsStay(Deliveries)
  BY <1>1, <1>2 DEF Rows, RowsStay
<1>4. ASSUME D!Begin(d, e) \/ D!Record(d, e) \/ D!RecordThenFault(d, e) \/ D!Fail(d, e)
      PROVE  DeliveriesKept
  <2>1. PICK value \in {"running", "succeeded", "queued", "failed", delivery[e]} :
          /\ delivery' = [delivery EXCEPT ![e] = value]
          /\ value # delivery[e] => delivery[e] \in D!Active
    BY <1>4 DEF D!Begin, D!MayBegin, D!Record, D!RecordThenFault, D!Fail,
                D!FailureStatus, D!Active
  <2>2. delivery[e] \in D!Active => delivery[e] \notin D!Terminal /\ delivery[e] # "absent"
    BY DEF D!Active, D!Terminal
  <2>3. CASE value = delivery[e]
    <3>1. delivery' = delivery
      BY <1>1, <2>1, <2>3
    <3>2. QED
      BY <1>1, <1>3, <3>1 DEF DeliveriesKept, DeliveryMoves
  <2>4. CASE value # delivery[e]
    <3>1. value \in {"absent"} \union D!Active \union D!Terminal
      BY <1>1, <2>1 DEF D!Active, D!Terminal
    <3>2. outbox'[e].state # "absent"
      BY <1>1, <1>2, <2>1, <2>2, <2>4
    <3>3. QED
      BY <1>1, <1>3, <2>1, <2>2, <2>4, <3>1, <3>2, DeliveryChanged
  <2>5. QED
    BY <2>3, <2>4
<1>5. ASSUME delivery' = delivery PROVE DeliveriesKept
  BY <1>1, <1>3, <1>5 DEF DeliveriesKept, DeliveryMoves
<1>6. QED
  BY <1>4, <1>5
  DEF D!Handler, D!BeginOver, D!Load, D!Send, D!RecordRefused, D!StorageFault

\* Every step of a worker that delivers webhooks.
LEMMA DeliveryStep ==
  ASSUME DeliveryIInv, kind = "webhook_delivery", D!Next PROVE DeliveriesKept
<1>1. /\ Rows(Deliveries)
      /\ delivery \in [Deliveries -> {"absent"} \union D!Active \union D!Terminal]
  BY DEF DeliveryIInv
<1>2. ASSUME delivery' = delivery, RowsStay(Deliveries) PROVE DeliveriesKept
  BY <1>1, <1>2 DEF DeliveriesKept, DeliveryMoves
<1>3. ASSUME NEW e \in Deliveries, D!Queue(e) PROVE DeliveriesKept
  <2>1. RowInserted(Deliveries, e) /\ delivery' = [delivery EXCEPT ![e] = "queued"]
    BY <1>1, <1>3, DeliveryRows DEF D!Queue
  <2>2. delivery[e] = "absent"
    BY <1>1, <2>1 DEF RowInserted, DeliveryIInv
  <2>3. QED
    BY <1>1, <2>1, <2>2, DeliveryChanged DEF RowInserted, D!Active, D!Terminal
<1>4. ASSUME D!Revoke \/ \E value \in BOOLEAN : D!SetPaused(value)
      PROVE  DeliveriesKept
  <2>1. outbox' = outbox /\ delivery' = delivery
    BY <1>4 DEF D!Revoke, D!SetPaused, D!outboxVars
  <2>2. RowsStay(Deliveries)
    BY <1>1, <2>1 DEF Rows, RowsStay
  <2>3. QED
    BY <1>2, <2>1, <2>2
<1>5. ASSUME NEW d \in Dispatchers, D!Dispatch(d) \/ D!Settle(d) \/ D!Crash(d)
      PROVE  DeliveriesKept
  <2>1. delivery' = delivery
    BY <1>5 DEF D!Dispatch, D!Settle, D!Crash, D!local
  <2>2. D!O!Claim(d) \/ D!Settle(d) \/ D!O!Crash(d)
    BY <1>5 DEF D!Dispatch, D!Crash
  <2>3. RowsStay(Deliveries)
    BY <1>1, <2>2, DeliveryRows
  <2>4. QED
    BY <1>2, <2>1, <2>3
<1>6. ASSUME D!Tick PROVE DeliveriesKept
  BY <1>1, <1>2, <1>6, DeliveryRows DEF D!Tick, D!local
<1>7. QED
  BY <1>3, <1>4, <1>5, <1>6, DeliveryHandlerStep DEF D!Next, D!Work

\* Every step of a worker, whatever its kind of event, keeps final outcomes.
LEMMA DeliveryNext ==
  DeliveryIInv /\ [Next]_vars =>
    DeliveryIInv' /\ \A e \in Deliveries :
                       delivery[e] \in D!Terminal => delivery'[e] = delivery[e]
<1> SUFFICES ASSUME DeliveryIInv, [Next]_vars
             PROVE  /\ DeliveryIInv'
                    /\ \A e \in Deliveries :
                         delivery[e] \in D!Terminal => delivery'[e] = delivery[e]
  OBVIOUS
<1>1. CASE kind = "webhook_delivery" /\ D!Next /\ kind' = kind
  <2>1. DeliveriesKept
    BY <1>1, DeliveryStep
  <2>2. DeliveryIInv'
    BY <1>1, <2>1 DEF DeliveriesKept, DeliveryMoves, DeliveryIInv, RowsStay
  <2>3. QED
    BY <2>1, <2>2 DEF DeliveriesKept, DeliveryMoves
<1>2. CASE kind # "webhook_delivery" /\ kind' = kind /\ UNCHANGED deliveryVars
  BY <1>2 DEF DeliveryIInv, deliveryVars
<1>3. CASE UNCHANGED vars
  BY <1>3 DEF vars, deliveryVars, DeliveryIInv, Rows
<1>4. QED
  BY <1>1, <1>2, <1>3 DEF Next, Webhook, Batch, Import, Source

\* No delivery has been queued at first.
LEMMA DeliveriesBegin ==
  Init => DeliveryIInv
BY DEF Init, DeliveryIInv, D!DeliveryInit, D!O!Init, Rows

\* An outcome of a delivery is final: no late failure of an overtaken worker
\* and no redelivered event changes it.
THEOREM DeliveryOutcomes == Spec => OutcomeIsFinal
<1>1. Init => DeliveryIInv
  BY DeliveriesBegin
<1>2. DeliveryIInv /\ [Next]_vars =>
        DeliveryIInv' /\ \A e \in Deliveries :
                           delivery[e] \in D!Terminal => delivery'[e] = delivery[e]
  BY DeliveryNext
<1>3. QED
  BY <1>1, <1>2, PTL DEF Spec, OutcomeIsFinal, D!OutcomeIsFinal

-----------------------------------------------------------------------------
(* Push ingestion: batches are applied in the order of their acceptance.   *)

IngestionTypes ==
  /\ batch \in [Batches -> {"absent"} \union I!Active \union I!Terminal]
  /\ processed \in [Batches -> 0 .. Chunks]
  /\ row \in [1 .. Chunks -> {0} \union Batches]

\* A batch is accepted after the ones before it, and once it is running or
\* has had a chunk applied, they are over.
Ordered(b) ==
  /\ batch[b] # "absent" => \A a \in Batches : a < b => batch[a] # "absent"
  /\ batch[b] = "running" \/ processed[b] > 0 =>
       \A a \in Batches : a < b => batch[a] \in I!Terminal

\* A row written last by a batch is one it has reached, and a row it has
\* reached was written last by that batch or a later one.
Reached(b) ==
  /\ \A k \in 1 .. Chunks :
       /\ row[k] = b => k <= processed[b]
       /\ k <= processed[b] => row[k] >= b
  /\ batch[b] = "succeeded" => processed[b] = Chunks

\* An accepted batch has its outbox row.
BatchRows ==
  kind = "ingestion_batch" =>
    /\ Rows(Batches)
    /\ \A b \in Batches : batch[b] # "absent" => outbox[b].state # "absent"

IngestionIInv ==
  /\ IngestionTypes
  /\ BatchRows
  /\ \A b \in Batches : Ordered(b) /\ Reached(b)

RowsGrow == \A k \in 1 .. Chunks : row'[k] >= row[k]

\* The steps of the outbox that a batch takes keep its rows.
LEMMA IngestionRows ==
  ASSUME Rows(Batches)
  PROVE  /\ \A b \in Batches : I!O!Enqueue(b) => RowInserted(Batches, b)
         /\ \A d \in Dispatchers :
              I!O!Claim(d) \/ I!Settle(d) \/ I!O!Crash(d) => RowsStay(Batches)
         /\ I!O!Tick => RowsStay(Batches)
         /\ outbox' = outbox => RowsStay(Batches)
<1> USE DEF Rows, RowsStay, RowInserted
<1>1. ASSUME NEW b \in Batches, I!O!Enqueue(b) PROVE RowInserted(Batches, b)
  BY <1>1 DEF I!O!Enqueue
<1>2. ASSUME NEW d \in Dispatchers, I!O!Claim(d) PROVE RowsStay(Batches)
  BY <1>2 DEF I!O!Claim
<1>3. ASSUME NEW d \in Dispatchers, NEW b \in Batches, I!O!Publish(d, b)
      PROVE  RowsStay(Batches)
  BY <1>3 DEF I!O!Publish, I!O!Released
<1>4. ASSUME NEW d \in Dispatchers, NEW b \in Batches, I!O!Retry(d, b)
      PROVE  RowsStay(Batches)
  BY <1>4 DEF I!O!Retry, I!O!Released
<1>5. ASSUME UNCHANGED outbox PROVE RowsStay(Batches)
  BY <1>5
<1>6. ASSUME I!O!Tick PROVE RowsStay(Batches)
  BY <1>6 DEF I!O!Tick
<1>7. QED
  BY <1>1, <1>2, <1>3, <1>4, <1>5, <1>6
  DEF I!Settle, I!O!LostClaim, I!O!StorageError, I!O!Crash

\* A step that leaves the batches and what they have written alone.
LEMMA BatchesKept ==
  ASSUME IngestionIInv, kind' = kind, UNCHANGED <<batch, processed, row>>,
         kind = "ingestion_batch" => RowsStay(Batches)
  PROVE  IngestionIInv' /\ RowsGrow
<1>1. IngestionTypes' /\ BatchRows'
  BY DEF IngestionIInv, IngestionTypes, BatchRows, RowsStay
<1>2. \A b \in Batches : Ordered(b)' /\ Reached(b)'
  BY DEF IngestionIInv, Ordered, Reached
<1>3. \A k \in 1 .. Chunks : row[k] \in Nat
  BY WorkerAssumption DEF IngestionIInv, IngestionTypes
<1>4. QED
  BY <1>1, <1>2, <1>3 DEF IngestionIInv, RowsGrow

\* The status of one batch changes, which is not over.
LEMMA BatchChanged ==
  ASSUME IngestionIInv, kind' = kind, NEW b \in Batches,
         kind = "ingestion_batch" => RowsStay(Batches) /\ outbox'[b].state # "absent",
         NEW value \in I!Active \union I!Terminal,
         batch[b] \notin I!Terminal,
         batch' = [batch EXCEPT ![b] = value],
         value = "running" => ~I!EarlierActive(b),
         value = "succeeded" => processed[b] = Chunks,
         \A a \in Batches : a < b => batch[a] # "absent",
         UNCHANGED <<processed, row>>
  PROVE  IngestionIInv' /\ RowsGrow
<1>1. /\ IngestionTypes /\ batch'[b] = value /\ value # "absent"
      /\ \A a \in Batches \ {b} : batch'[a] = batch[a]
  BY DEF IngestionIInv, IngestionTypes, I!Active, I!Terminal
<1>2. IngestionTypes'
  BY <1>1 DEF IngestionTypes
<1>3. BatchRows'
  BY <1>1 DEF IngestionIInv, BatchRows, RowsStay
<1>4. \A c \in Batches : Ordered(c) /\ Reached(c)
  BY DEF IngestionIInv
<1>5. \A a \in Batches : batch[a] \in I!Terminal => batch'[a] \in I!Terminal
  BY <1>1
<1>6. ASSUME NEW c \in Batches PROVE Ordered(c)'
  <2>1. batch'[c] # "absent" => \A a \in Batches : a < c => batch'[a] # "absent"
    BY <1>1, <1>4 DEF Ordered
  <2>2. ASSUME batch'[c] = "running" \/ processed[c] > 0,
               NEW a \in Batches, a < c
        PROVE  batch'[a] \in I!Terminal
    <3>1. CASE batch[c] = "running" \/ processed[c] > 0
      BY <1>4, <1>5, <2>2, <3>1 DEF Ordered
    <3>2. CASE ~(batch[c] = "running" \/ processed[c] > 0)
      <4>1. c = b /\ value = "running"
        BY <1>1, <2>2, <3>2
      <4>2. batch[a] \notin I!Active /\ batch[a] # "absent"
        BY <2>2, <4>1 DEF I!EarlierActive
      <4>3. QED
        BY <1>1, <1>5, <4>2 DEF IngestionTypes
    <3>3. QED
      BY <3>1, <3>2
  <2>3. QED
    BY <2>1, <2>2 DEF Ordered
<1>7. \A c \in Batches : Reached(c)'
  BY <1>1, <1>4 DEF Reached
<1>8. \A k \in 1 .. Chunks : row[k] \in Nat
  <2>1. {0} \union Batches \subseteq Nat
    BY WorkerAssumption
  <2>2. QED
    BY <1>1, <2>1 DEF IngestionTypes
<1>9. QED
  BY <1>2, <1>3, <1>6, <1>7, <1>8 DEF IngestionIInv, RowsGrow

\* A transaction that applies a chunk.
LEMMA ChunkApplied ==
  ASSUME IngestionIInv, kind' = kind, NEW d \in Dispatchers, NEW b \in Batches,
         I!ApplyChunk(d, b)
  PROVE  IngestionIInv' /\ RowsGrow
<1> DEFINE n == processed[b] + 1
<1>1. /\ IngestionTypes /\ BatchRows /\ Chunks \in Nat \ {0} /\ Batches \subseteq Nat \ {0}
      /\ \A c \in Batches : Ordered(c) /\ Reached(c)
  BY WorkerAssumption DEF IngestionIInv
<1>2. /\ batch[b] = "running" /\ processed[b] # Chunks
      /\ row' = [row EXCEPT ![n] = b]
      /\ processed' = [processed EXCEPT ![b] = n]
      /\ UNCHANGED <<outbox, batch>>
  BY <1>1 DEF I!ApplyChunk, I!MayApply, I!AllProcessed, I!outboxVars, IngestionTypes
<1>3. n \in 1 .. Chunks /\ n \in 0 .. Chunks
  BY <1>1, <1>2 DEF IngestionTypes
<1>4. /\ \A k \in 1 .. Chunks : row[k] \in {0} \union Batches
      /\ \A c \in Batches : processed[c] \in 0 .. Chunks
  BY <1>1 DEF IngestionTypes
<1> HIDE DEF n
<1>5. /\ row'[n] = b /\ \A k \in (1 .. Chunks) \ {n} : row'[k] = row[k]
      /\ processed'[b] = n
      /\ \A c \in Batches \ {b} : processed'[c] = processed[c]
  BY <1>1, <1>2, <1>3 DEF IngestionTypes
<1>6. processed[b] <= n /\ (\A k \in 1 .. n : k = n \/ k <= processed[b])
  BY <1>4 DEF n
<1>7. row[n] <= b
  <2>1. CASE row[n] = 0
    BY <1>1, <2>1
  <2>2. CASE row[n] # 0
    <3>1. PICK c \in Batches : row[n] = c
      BY <1>3, <1>4, <2>2
    <3>2. n <= processed[c] /\ n > 0
      BY <1>1, <1>3, <3>1 DEF Reached
    <3>3. processed[c] > 0
      BY <1>3, <1>4, <3>2
    <3>4. ~(b < c)
      BY <1>1, <1>2, <3>3 DEF Ordered, I!Terminal
    <3>5. b \in Nat /\ c \in Nat
      BY <1>1
    <3>6. QED
      BY <3>1, <3>4, <3>5
  <2>3. QED
    BY <2>1, <2>2
<1>8. b \in Nat /\ \A k \in 1 .. Chunks : row[k] \in Nat
  <2>1. {0} \union Batches \subseteq Nat
    BY <1>1
  <2>2. QED
    BY <1>1, <1>4, <2>1, Zenon
<1>9. RowsGrow
  <2>1. ASSUME NEW k \in 1 .. Chunks PROVE row'[k] >= row[k]
    BY <1>5, <1>7, <1>8
  <2>2. QED
    BY <2>1 DEF RowsGrow
<1>10. IngestionTypes' /\ BatchRows'
  <2>1. IngestionTypes'
    BY <1>1, <1>2, <1>3 DEF IngestionTypes
  <2>2. BatchRows'
    BY <1>1, <1>2 DEF BatchRows, Rows
  <2>3. QED
    BY <2>1, <2>2
<1>11. ASSUME NEW c \in Batches PROVE Ordered(c)'
  <2>1. CASE c = b
    BY <1>1, <1>2, <2>1 DEF Ordered
  <2>2. CASE c # b
    BY <1>1, <1>2, <1>5, <2>2 DEF Ordered
  <2>3. QED
    BY <2>1, <2>2
<1>12. ASSUME NEW c \in Batches PROVE Reached(c)'
  <2>1. batch'[c] = "succeeded" => processed'[c] = Chunks
    BY <1>1, <1>2, <1>5 DEF Reached
  <2>2. ASSUME NEW k \in 1 .. Chunks, row'[k] = c PROVE k <= processed'[c]
    <3>1. CASE k = n
      BY <1>3, <1>5, <2>2, <3>1
    <3>2. CASE k # n /\ c # b
      BY <1>1, <1>5, <2>2, <3>2 DEF Reached
    <3>3. CASE k # n /\ c = b
      <4>1. k <= processed[b]
        BY <1>1, <1>5, <2>2, <3>3 DEF Reached
      <4>2. QED
        BY <1>3, <1>4, <1>5, <1>6, <3>3, <4>1
    <3>4. QED
      BY <3>1, <3>2, <3>3
  <2>3. ASSUME NEW k \in 1 .. Chunks, k <= processed'[c] PROVE row'[k] >= c
    <3>1. CASE c = b /\ k = n
      BY <1>1, <1>5, <3>1
    <3>2. CASE k <= processed[c]
      <4>1. row[k] >= c
        BY <1>1, <3>2 DEF Reached
      <4>2. row'[k] >= row[k]
        BY <1>9 DEF RowsGrow
      <4>3. row'[k] \in Nat /\ row[k] \in Nat /\ c \in Nat
        BY <1>1, <1>5, <1>8
      <4>4. QED
        BY <4>1, <4>2, <4>3
    <3>3. (c = b /\ k = n) \/ k <= processed[c]
      BY <1>3, <1>5, <1>6, <2>3
    <3>4. QED
      BY <3>1, <3>2, <3>3
  <2>4. QED
    BY <2>1, <2>2, <2>3 DEF Reached
<1>13. QED
  BY <1>9, <1>10, <1>11, <1>12 DEF IngestionIInv

\* The steps of the handler of batches.
LEMMA IngestionHandlerStep ==
  ASSUME IngestionIInv, kind = "ingestion_batch", kind' = kind,
         NEW d \in Dispatchers, NEW b \in Batches,
         I!Handler(d, b) \/ I!StorageFault(d, b)
  PROVE  IngestionIInv' /\ RowsGrow
<1> DEFINE Goal == IngestionIInv' /\ RowsGrow
<1>1. /\ IngestionTypes /\ Rows(Batches) /\ Ordered(b)
      /\ batch[b] # "absent" => outbox[b].state # "absent"
  BY DEF IngestionIInv, BatchRows
<1>2. outbox' = outbox /\ RowsStay(Batches)
  BY <1>1, IngestionRows
  DEF I!Handler, I!Begin, I!BeginOver, I!ApplyChunk, I!Complete, I!ApplyRefused,
      I!Fail, I!StorageFault, I!outboxVars
<1>3. batch[b] \in I!Active =>
        /\ batch[b] \notin I!Terminal /\ batch[b] # "absent"
        /\ \A a \in Batches : a < b => batch[a] # "absent"
  BY <1>1 DEF Ordered, I!Active, I!Terminal
<1>4. ASSUME I!Begin(d, b) \/ I!Complete(d, b) \/ (I!Fail(d, b) /\ batch[b] \in I!Active)
      PROVE  Goal
  <2>1. PICK value \in I!Active \union I!Terminal :
          /\ batch' = [batch EXCEPT ![b] = value]
          /\ batch[b] \in I!Active
          /\ value = "running" => ~I!EarlierActive(b)
          /\ value = "succeeded" => processed[b] = Chunks
          /\ UNCHANGED <<processed, row>>
    BY <1>4 DEF I!Begin, I!Complete, I!MayApply, I!AllProcessed, I!Fail, I!FailureStatus,
                I!Active, I!Terminal
  <2>2. outbox'[b].state # "absent"
    BY <1>1, <1>2, <1>3, <2>1
  <2>3. QED
    BY <1>2, <1>3, <2>1, <2>2, BatchChanged
<1>5. ASSUME UNCHANGED <<batch, processed, row>> PROVE Goal
  BY <1>2, <1>5, BatchesKept
<1>6. ASSUME I!Fail(d, b), batch[b] \notin I!Active PROVE Goal
  <2>1. UNCHANGED <<batch, processed, row>>
    BY <1>1, <1>6 DEF I!Fail, IngestionTypes
  <2>2. QED
    BY <1>5, <2>1
<1>7. ASSUME I!ApplyChunk(d, b) PROVE Goal
  BY <1>7, ChunkApplied
<1> HIDE DEF Goal
<1>8. Goal
  BY <1>4, <1>5, <1>6, <1>7
  DEF I!Handler, I!BeginOver, I!ApplyRefused, I!StorageFault
<1>9. QED
  BY <1>8 DEF Goal

\* Every step of the worker.
LEMMA IngestionStep ==
  ASSUME IngestionIInv, [Next]_vars PROVE IngestionIInv' /\ RowsGrow
<1> DEFINE Goal == IngestionIInv' /\ RowsGrow
<1>1. ASSUME kind = "ingestion_batch", kind' = kind, I!Next PROVE Goal
  <2>1. Rows(Batches) /\ IngestionTypes
    BY <1>1 DEF IngestionIInv, BatchRows
  <2>2. ASSUME RowsStay(Batches), UNCHANGED <<batch, processed, row>> PROVE Goal
    BY <1>1, <2>2, BatchesKept
  <2>3. ASSUME NEW b \in Batches, I!StageBatch(b) PROVE Goal
    <3>1. RowInserted(Batches, b)
      BY <2>1, <2>3, IngestionRows DEF I!StageBatch
    <3>2. batch[b] = "absent"
      BY <1>1, <3>1 DEF RowInserted, IngestionIInv, BatchRows
    <3>3. /\ batch' = [batch EXCEPT ![b] = "queued"]
          /\ \A a \in Batches : a < b => batch[a] # "absent"
          /\ UNCHANGED <<processed, row>>
      BY <2>3 DEF I!StageBatch
    <3>4. "queued" \in I!Active \union I!Terminal /\ batch[b] \notin I!Terminal
      BY <3>2 DEF I!Active, I!Terminal
    <3>5. QED
      BY <1>1, <3>1, <3>3, <3>4, BatchChanged DEF RowInserted
  <2>4. ASSUME I!Revoke PROVE Goal
    BY <2>1, <2>2, <2>4, IngestionRows DEF I!Revoke, I!outboxVars
  <2>5. ASSUME NEW d \in Dispatchers, I!Dispatch(d) \/ I!Settle(d) \/ I!Crash(d)
        PROVE  Goal
    <3>1. UNCHANGED <<batch, processed, row>>
      BY <2>5 DEF I!Dispatch, I!Settle, I!Crash, I!local
    <3>2. I!O!Claim(d) \/ I!Settle(d) \/ I!O!Crash(d)
      BY <2>5 DEF I!Dispatch, I!Crash
    <3>3. RowsStay(Batches)
      BY <2>1, <3>2, IngestionRows
    <3>4. QED
      BY <2>2, <3>1, <3>3
  <2>6. ASSUME I!Tick PROVE Goal
    BY <2>1, <2>2, <2>6, IngestionRows DEF I!Tick, I!local
  <2>7. ASSUME NEW d \in Dispatchers, NEW b \in Batches,
               I!Handler(d, b) \/ I!StorageFault(d, b)
        PROVE  Goal
    BY <1>1, <2>7, IngestionHandlerStep
  <2> HIDE DEF Goal
  <2>8. QED
    BY <1>1, <2>3, <2>4, <2>5, <2>6, <2>7 DEF I!Next, I!Work
<1>2. ASSUME kind # "ingestion_batch", kind' = kind, UNCHANGED ingestionVars PROVE Goal
  BY <1>2, BatchesKept DEF ingestionVars
<1>3. ASSUME UNCHANGED vars PROVE Goal
  <2>1. kind = "ingestion_batch" => RowsStay(Batches)
    BY <1>3 DEF IngestionIInv, BatchRows, Rows, RowsStay, vars
  <2>2. QED
    BY <1>3, <2>1, BatchesKept DEF vars, ingestionVars
<1> HIDE DEF Goal
<1>4. Goal
  BY <1>1, <1>2, <1>3 DEF Next, Webhook, Batch, Import, Source
<1>5. QED
  BY <1>4 DEF Goal

\* No batch has been accepted at first.
LEMMA BatchesBegin ==
  Init => IngestionIInv
<1> SUFFICES ASSUME Init PROVE IngestionIInv
  OBVIOUS
<1>1. /\ batch = [b \in Batches |-> "absent"]
      /\ processed = [b \in Batches |-> 0]
      /\ row = [k \in 1 .. Chunks |-> 0]
      /\ Chunks \in Nat /\ Batches \subseteq Nat \ {0}
  BY WorkerAssumption DEF Init, I!IngestionInit
<1>2. BatchRows
  BY <1>1 DEF Init, I!O!Init, BatchRows, Rows
<1>3. IngestionTypes
  BY <1>1 DEF IngestionTypes
<1>4. ASSUME NEW b \in Batches PROVE Ordered(b) /\ Reached(b)
  BY <1>1 DEF Ordered, Reached
<1>5. QED
  BY <1>2, <1>3, <1>4 DEF IngestionIInv

\* Whatever leases expire, workers crash and attempts fail, batches are
\* applied in the order of their acceptance, and a batch that succeeds has
\* reached every row.
THEOREM BatchesInOrder == Spec => AppliedInOrder
<1>1. Init => IngestionIInv
  BY BatchesBegin
<1>2. IngestionIInv /\ [Next]_vars =>
        /\ IngestionIInv'
        /\ \A k \in 1 .. Chunks :
             /\ row'[k] >= row[k]
             /\ \A b \in Batches : batch'[b] = "succeeded" => row'[k] >= b
  <2> SUFFICES ASSUME IngestionIInv, [Next]_vars
               PROVE  /\ IngestionIInv'
                      /\ \A k \in 1 .. Chunks :
                           /\ row'[k] >= row[k]
                           /\ \A b \in Batches :
                                batch'[b] = "succeeded" => row'[k] >= b
    OBVIOUS
  <2>1. IngestionIInv' /\ RowsGrow
    BY IngestionStep
  <2>2. ASSUME NEW k \in 1 .. Chunks, NEW b \in Batches, batch'[b] = "succeeded"
        PROVE  row'[k] >= b
    <3>1. Reached(b)'
      BY <2>1 DEF IngestionIInv
    <3>2. QED
      BY <2>2, <3>1, WorkerAssumption DEF Reached
  <2>3. QED
    BY <2>1, <2>2 DEF RowsGrow
<1>3. QED
  BY <1>1, <1>2, PTL DEF Spec, AppliedInOrder, I!AppliedInOrder

-----------------------------------------------------------------------------
(* Sources: a successful run leaves the table as the provider has been.    *)

SourceTypes ==
  /\ remote \subseteq Keys
  /\ run \in [Runs -> [status : {"absent"} \union S!Active \union S!Terminal,
                       pages  : Nat,
                       cursor : {0} \union Keys]]
  /\ seen \in [Keys -> {0} \union Runs]
  /\ archived \subseteq known
  /\ page \in [Dispatchers -> S!Page]
  /\ stage = [d \in Dispatchers |-> stage[d]]

\* A run has its outbox row, one run is active at a time, and only a run that
\* was queued has pages or has seen records.
RunsFit ==
  /\ Rows(Runs)
  /\ \A r \in Runs :
       IF run[r].status = "absent"
         THEN run[r].pages = 0 /\ run[r].cursor = 0 /\ \A k \in Keys : seen[k] # r
         ELSE outbox[r].state # "absent"
  /\ \A r, q \in Runs :
       run[r].status \in S!Active /\ run[q].status \in S!Active => r = q

\* Up to the cursor of the active run, the records that it has seen are the
\* ones the provider has, except where the provider changed; they show in the
\* table, and no record after the cursor has been seen.
Mirrored(r) ==
  run[r].status \in S!Active =>
    \A k \in Keys :
      /\ seen[k] = r => k \in known \ archived
      /\ k > run[r].cursor => seen[k] # r
      /\ k <= run[r].cursor /\ k \notin touched => (k \in remote <=> seen[k] = r)

\* An answer to a request after cursor c, as far as the provider is the same.
Right(answer, c) ==
  /\ answer.key = 0 => ~answer.more /\ \A k \in remote \ touched : k <= c
  /\ answer.key # 0 =>
       /\ answer.key > c
       /\ answer.key \in remote \union touched
       /\ \A k \in remote \ touched :
            k > c => answer.key <= k /\ (answer.more \/ k = answer.key)

\* What a dispatcher holds: events with a row, and a handler that is under
\* way while it works on the first of them.
Holds(d) ==
  /\ {"batch", "outcome"} \subseteq DOMAIN disp[d]
  /\ \A r \in Runs : r \in disp[d].batch => outbox[r].state # "absent"
  /\ stage[d] # "outside" => disp[d].batch # {} /\ disp[d].outcome = "running"

\* The answer it is about to apply is at most one page ahead of the run, and
\* if it is the next page, it answers for the cursor of the run.
Answered(d) ==
  stage[d] = "applying" =>
    \A r \in Runs : S!O!Current(d, r) =>
      /\ page[d].number <= run[r].pages + 1
      /\ page[d].number = run[r].pages + 1 /\ run[r].status \in S!Active =>
           Right(page[d], run[r].cursor)

SourceIInv ==
  kind = "source_run" =>
    /\ SourceTypes
    /\ RunsFit
    /\ disp = [d \in Dispatchers |-> disp[d]]
    /\ \A r \in Runs : Mirrored(r)
    /\ \A d \in Dispatchers : Holds(d) /\ Answered(d)

\* The steps of the outbox that a run takes keep its rows, and a dispatcher
\* claims only events that have one.
LEMMA SourceRows ==
  ASSUME Rows(Runs)
  PROVE  /\ \A r \in Runs : S!O!Enqueue(r) => RowInserted(Runs, r)
         /\ \A d \in Dispatchers : \A r \in Runs :
              S!O!Publish(d, r) \/ S!O!Retry(d, r) => RowsStay(Runs)
         /\ \A d \in Dispatchers : S!O!Claim(d) =>
              RowsStay(Runs) /\ \A r \in S!O!Candidates : outbox'[r].state # "absent"
         /\ S!O!Tick => RowsStay(Runs)
         /\ outbox' = outbox => RowsStay(Runs)
<1> USE DEF Rows, RowsStay, RowInserted
<1>1. ASSUME NEW r \in Runs, S!O!Enqueue(r) PROVE RowInserted(Runs, r)
  BY <1>1 DEF S!O!Enqueue
<1>2. ASSUME NEW d \in Dispatchers, S!O!Claim(d)
      PROVE  RowsStay(Runs) /\ \A r \in S!O!Candidates : outbox'[r].state # "absent"
  <2>1. \A r \in S!O!Candidates : r \in Runs /\ outbox[r].state = "pending"
    BY DEF S!O!Candidates, S!O!Eligible
  <2>2. RowsStay(Runs)
    BY <1>2 DEF S!O!Claim
  <2>3. QED
    BY <2>1, <2>2
<1>3. ASSUME NEW d \in Dispatchers, NEW r \in Runs, S!O!Publish(d, r)
      PROVE  RowsStay(Runs)
  BY <1>3 DEF S!O!Publish, S!O!Released
<1>4. ASSUME NEW d \in Dispatchers, NEW r \in Runs, S!O!Retry(d, r)
      PROVE  RowsStay(Runs)
  BY <1>4 DEF S!O!Retry, S!O!Released
<1>5. ASSUME UNCHANGED outbox PROVE RowsStay(Runs)
  BY <1>5
<1>6. ASSUME S!O!Tick PROVE RowsStay(Runs)
  BY <1>6 DEF S!O!Tick
<1>7. QED
  BY <1>1, <1>2, <1>3, <1>4, <1>5, <1>6

\* What a step on the queue or in a handler leaves of the runs when it applies
\* no page: pages and cursors, and no run becomes active.
RunsStay ==
  /\ run' \in [Runs -> [status : {"absent"} \union S!Active \union S!Terminal,
                        pages  : Nat,
                        cursor : {0} \union Keys]]
  /\ \A r \in Runs :
       /\ run'[r].pages = run[r].pages /\ run'[r].cursor = run[r].cursor
       /\ run'[r].status \in S!Active => run[r].status \in S!Active
       /\ run'[r].status = "absent" <=> run[r].status = "absent"

\* What a step of dispatcher d leaves of the others.
OthersStay(d) ==
  /\ disp' = [x \in Dispatchers |-> disp'[x]]
  /\ stage' = [x \in Dispatchers |-> stage'[x]]
  /\ page' \in [Dispatchers -> S!Page]
  /\ \A x \in Dispatchers \ {d} :
       disp'[x] = disp[x] /\ stage'[x] = stage[x] /\ page'[x] = page[x]

\* A step of a dispatcher that applies no page and receives no answer.
LEMMA DispatcherMoved ==
  ASSUME SourceIInv, kind = "source_run", kind' = kind, NEW d \in Dispatchers,
         UNCHANGED <<remote, touched, known, seen, archived>>,
         RowsStay(Runs), RunsStay, OthersStay(d),
         Holds(d)', stage'[d] # "applying"
  PROVE  SourceIInv'
<1>1. SourceTypes /\ RunsFit
  BY DEF SourceIInv
<1>2. SourceTypes'
  BY <1>1 DEF SourceTypes, RunsStay, OthersStay
<1>3. RunsFit'
  BY <1>1 DEF RunsFit, RunsStay, RowsStay
<1>4. ASSUME NEW r \in Runs PROVE Mirrored(r)'
  <2>1. Mirrored(r)
    BY DEF SourceIInv
  <2>2. /\ run'[r].cursor = run[r].cursor
        /\ run'[r].status \in S!Active => run[r].status \in S!Active
    BY DEF RunsStay
  <2>3. QED
    BY <2>1, <2>2 DEF Mirrored
<1>5. ASSUME NEW x \in Dispatchers, x # d PROVE Holds(x)' /\ Answered(x)'
  <2>1. /\ Holds(x) /\ Answered(x)
        /\ disp'[x] = disp[x] /\ stage'[x] = stage[x] /\ page'[x] = page[x]
    BY <1>5 DEF SourceIInv, OthersStay
  <2>2. Holds(x)'
    BY <2>1 DEF Holds, RowsStay
  <2>3. ASSUME stage[x] = "applying", NEW r \in Runs, S!O!Current(x, r)'
        PROVE  /\ page'[x].number <= run'[r].pages + 1
               /\ page'[x].number = run'[r].pages + 1 /\ run'[r].status \in S!Active =>
                    Right(page[x], run[r].cursor)'
    <3>1. S!O!Current(x, r)
      BY <2>1, <2>3 DEF S!O!Current
    <3>2. /\ page[x].number <= run[r].pages + 1
          /\ page[x].number = run[r].pages + 1 /\ run[r].status \in S!Active =>
               Right(page[x], run[r].cursor)
      BY <2>1, <2>3, <3>1 DEF Answered
    <3>3. /\ run'[r].pages = run[r].pages /\ run'[r].cursor = run[r].cursor
          /\ run'[r].status \in S!Active => run[r].status \in S!Active
      BY DEF RunsStay
    <3>4. QED
      BY <2>1, <3>2, <3>3 DEF Right
  <2>4. QED
    BY <2>1, <2>2, <2>3 DEF Answered
<1>6. Answered(d)'
  BY DEF Answered
<1>7. disp' = [x \in Dispatchers |-> disp'[x]]
  BY DEF OthersStay
<1>8. QED
  BY <1>2, <1>3, <1>4, <1>5, <1>6, <1>7 DEF SourceIInv

\* A handler goes to another place or leaves.
LEMMA HandlerMoves ==
  ASSUME SourceIInv, kind = "source_run", NEW d \in Dispatchers, NEW r \in Runs,
         r \in disp[d].batch, disp[d].outcome = "running", outbox' = outbox,
         NEW place, NEW result,
         (S!GoesTo(d, place) /\ disp' = disp) \/ (S!Leaves(d, result) /\ place = "outside")
  PROVE  OthersStay(d) /\ Holds(d)' /\ stage'[d] = place
<1>1. SourceTypes /\ Holds(d) /\ disp = [x \in Dispatchers |-> disp[x]]
  BY DEF SourceIInv
<1>2. /\ stage' = [stage EXCEPT ![d] = place]
      /\ page' = [page EXCEPT ![d] = S!NoPage]
      /\ disp' = disp \/ (disp' = [disp EXCEPT ![d].outcome = result] /\ place = "outside")
  BY DEF S!GoesTo, S!Leaves
<1>3. S!NoPage \in S!Page
  BY DEF S!NoPage, S!Page
<1>4. /\ stage' = [x \in Dispatchers |-> stage'[x]] /\ stage'[d] = place
      /\ page' \in [Dispatchers -> S!Page]
      /\ \A x \in Dispatchers \ {d} : stage'[x] = stage[x] /\ page'[x] = page[x]
  BY <1>1, <1>2, <1>3 DEF SourceTypes
<1>5. /\ disp' = [x \in Dispatchers |-> disp'[x]]
      /\ \A x \in Dispatchers \ {d} : disp'[x] = disp[x]
  BY <1>1, <1>2
<1>6. Holds(d)'
  <2>1. CASE disp' = disp
    BY <1>1, <1>4, <2>1 DEF Holds
  <2>2. CASE disp' = [disp EXCEPT ![d].outcome = result] /\ place = "outside"
    BY <1>1, <1>4, <2>2 DEF Holds
  <2>3. QED
    BY <1>2, <2>1, <2>2
<1>7. QED
  BY <1>4, <1>5, <1>6 DEF OthersStay

\* The steps of a handler that neither receive an answer nor apply a page.
LEMMA QuietHandlerStep ==
  ASSUME SourceIInv, kind = "source_run", kind' = kind,
         NEW d \in Dispatchers, NEW r \in Runs,
         \/ S!Begin(d, r)
         \/ S!BeginOver(d, r)
         \/ \E failure \in {"retryable", "fatal"} : S!RequestFails(d, r, failure)
         \/ S!ApplyNothing(d, r)
         \/ S!ApplyRefused(d, r)
         \/ S!Fail(d, r)
         \/ S!StorageFault(d, r)
  PROVE  SourceIInv'
<1>1. SourceTypes /\ RunsFit
  BY DEF SourceIInv
<1>2. /\ outbox' = outbox /\ UNCHANGED <<remote, touched, known, seen, archived>>
      /\ r \in disp[d].batch /\ disp[d].outcome = "running"
  BY DEF S!Begin, S!BeginOver, S!RequestFails, S!ApplyNothing, S!ApplyRefused, S!Fail,
         S!StorageFault, S!Handling, S!O!Current, S!outboxVars, S!world, S!identities
<1>3. RowsStay(Runs)
  BY <1>1, <1>2, SourceRows DEF RunsFit
<1> DEFINE Moves(place, result) ==
      \/ S!GoesTo(d, place) /\ disp' = disp
      \/ S!Leaves(d, result) /\ place = "outside"
<1>4. \E place, result : place # "applying" /\ Moves(place, result)
  <2>1. ASSUME NEW place, place # "applying", S!GoesTo(d, place), disp' = disp
        PROVE  \E to, result : to # "applying" /\ Moves(to, result)
    BY <2>1
  <2>2. ASSUME NEW result, S!Leaves(d, result)
        PROVE  \E to, out : to # "applying" /\ Moves(to, out)
    BY <2>2
  <2>3. QED
    BY <2>1, <2>2
    DEF S!Begin, S!BeginOver, S!RequestFails, S!ApplyNothing, S!ApplyRefused, S!Fail,
        S!StorageFault, S!outboxVars
<1>5. OthersStay(d) /\ Holds(d)' /\ stage'[d] # "applying"
  BY <1>2, <1>4, HandlerMoves
<1>6. RunsStay
  <2>1. ASSUME run' = run PROVE RunsStay
    BY <1>1, <2>1 DEF RunsStay, SourceTypes
  <2>2. ASSUME S!Begin(d, r) \/ S!Fail(d, r) PROVE RunsStay
    <3>1. PICK status \in {"running", "queued", "failed", run[r].status} :
            /\ run' = [run EXCEPT ![r].status = status]
            /\ status # run[r].status => run[r].status \in S!Active
      BY <2>2 DEF S!Begin, S!MayBegin, S!Fail
    <3> DEFINE new == [run[r] EXCEPT !.status = status]
    <3>2. /\ run[r] \in [status : {"absent"} \union S!Active \union S!Terminal,
                         pages  : Nat,
                         cursor : {0} \union Keys]
          /\ run' = [run EXCEPT ![r] = new]
      BY <1>1, <3>1 DEF SourceTypes
    <3>3. /\ new \in [status : {"absent"} \union S!Active \union S!Terminal,
                      pages  : Nat,
                      cursor : {0} \union Keys]
          /\ new.pages = run[r].pages /\ new.cursor = run[r].cursor
          /\ new.status = status
      BY <3>1, <3>2 DEF S!Active, S!Terminal
    <3> HIDE DEF new
    <3>4. run'[r] = new /\ \A q \in Runs \ {r} : run'[q] = run[q]
      BY <1>1, <3>2 DEF SourceTypes
    <3>5. run' \in [Runs -> [status : {"absent"} \union S!Active \union S!Terminal,
                             pages  : Nat,
                             cursor : {0} \union Keys]]
      BY <1>1, <3>2, <3>3 DEF SourceTypes
    <3>6. /\ status \in S!Active => run[r].status \in S!Active
          /\ status = "absent" <=> run[r].status = "absent"
      BY <3>1 DEF S!Active
    <3>7. QED
      BY <3>3, <3>4, <3>5, <3>6 DEF RunsStay
  <2>3. QED
    BY <2>1, <2>2
    DEF S!BeginOver, S!RequestFails, S!ApplyNothing, S!ApplyRefused, S!StorageFault
<1>7. QED
  BY <1>2, <1>3, <1>5, <1>6, DispatcherMoved

\* The steps of the dispatch loop around its handlers.
LEMMA LoopStep ==
  ASSUME SourceIInv, kind = "source_run", kind' = kind, NEW d \in Dispatchers,
         S!Dispatch(d) \/ S!Settle(d) \/ S!Crash(d)
  PROVE  SourceIInv'
<1>1. /\ SourceTypes /\ RunsFit /\ Holds(d) /\ Rows(Runs)
      /\ disp = [x \in Dispatchers |-> disp[x]]
  BY DEF SourceIInv, RunsFit
<1>2. /\ UNCHANGED <<remote, touched, known, seen, archived, run>>
      /\ \/ S!Crash(d)
         \/ UNCHANGED <<stage, page>> /\ stage[d] = "outside"
  BY <1>1 DEF S!Dispatch, S!Settle, S!Crash, S!local, S!world, S!identities, Holds,
              S!O!Claim, S!O!Publish, S!O!Retry, S!O!LostClaim, S!O!StorageError,
              S!O!GivesUp
<1>3. RunsStay
  BY <1>1, <1>2 DEF RunsStay, SourceTypes
<1>4. stage'[d] = "outside" /\ stage' = [x \in Dispatchers |-> stage'[x]]
      /\ page' \in [Dispatchers -> S!Page]
      /\ \A x \in Dispatchers \ {d} : stage'[x] = stage[x] /\ page'[x] = page[x]
  <2>1. CASE S!Crash(d)
    <3>1. S!NoPage \in S!Page
      BY DEF S!NoPage, S!Page
    <3>2. QED
      BY <1>1, <2>1, <3>1 DEF S!Crash, S!GoesTo, SourceTypes
  <2>2. CASE UNCHANGED <<stage, page>> /\ stage[d] = "outside"
    BY <1>1, <2>2 DEF SourceTypes
  <2>3. QED
    BY <1>2, <2>1, <2>2
<1> DEFINE Fits == {"batch", "outcome"} \subseteq DOMAIN disp'[d]
                   /\ \A r \in Runs : r \in disp'[d].batch => outbox'[r].state # "absent"
           Moves == /\ disp' = [disp EXCEPT ![d] = disp'[d]]
                    /\ Fits /\ RowsStay(Runs)
<1>5. Moves
  <2>1. ASSUME NEW new, disp' = [disp EXCEPT ![d] = new], RowsStay(Runs),
               {"batch", "outcome"} \subseteq DOMAIN new,
               \A r \in Runs : r \in new.batch => outbox'[r].state # "absent"
        PROVE  Moves
    BY <1>1, <2>1
  <2>2. ASSUME disp' = [disp EXCEPT ![d] = S!O!Idle], RowsStay(Runs) PROVE Moves
    <3>1. {"batch", "outcome"} \subseteq DOMAIN S!O!Idle /\ S!O!Idle.batch = {}
      BY DEF S!O!Idle
    <3>2. \A r \in Runs : r \in S!O!Idle.batch => outbox'[r].state # "absent"
      BY <3>1
    <3> HIDE DEF Moves
    <3>3. QED
      BY <2>1, <2>2, <3>1, <3>2
  <2>3. ASSUME S!O!Claim(d) PROVE Moves
    BY <1>1, <2>1, <2>3, SourceRows DEF S!O!Claim
  <2>4. ASSUME NEW r \in Runs, S!O!Publish(d, r) \/ S!O!Retry(d, r) PROVE Moves
    <3>1. RowsStay(Runs)
      BY <1>1, <2>4, SourceRows
    <3>2. disp' = [disp EXCEPT ![d].batch = @ \ {r}, ![d].outcome = "running"]
      BY <2>4 DEF S!O!Publish, S!O!Retry, S!O!Advance
    <3> DEFINE new == [disp[d] EXCEPT !.batch = @ \ {r}, !.outcome = "running"]
    <3>3. disp' = [disp EXCEPT ![d] = new]
      BY <1>1, <3>2
    <3>4. {"batch", "outcome"} \subseteq DOMAIN new /\ new.batch = disp[d].batch \ {r}
      BY <1>1 DEF Holds
    <3> HIDE DEF new, Moves
    <3>5. \A q \in Runs : q \in new.batch => outbox'[q].state # "absent"
      BY <1>1, <3>1, <3>4 DEF Holds, RowsStay
    <3>6. QED
      BY <2>1, <3>1, <3>3, <3>4, <3>5
  <2>5. ASSUME NEW r \in Runs, S!O!LostClaim(d, r) PROVE Moves
    BY <1>1, <2>2, <2>5, SourceRows DEF S!O!LostClaim
  <2>6. ASSUME S!O!Crash(d) PROVE Moves
    BY <1>1, <2>2, <2>6, SourceRows DEF S!O!Crash
  <2>7. ASSUME S!O!StorageError(d) PROVE Moves
    <3>1. RowsStay(Runs)
      BY <1>1, <2>7, SourceRows DEF S!O!StorageError
    <3>2. CASE disp[d].outcome = "ok"
      <4> DEFINE new == [disp[d] EXCEPT !.outcome = "retryable"]
      <4>1. disp' = [disp EXCEPT ![d] = new]
        BY <1>1, <2>7, <3>2 DEF S!O!StorageError
      <4>2. {"batch", "outcome"} \subseteq DOMAIN new /\ new.batch = disp[d].batch
        BY <1>1 DEF Holds
      <4> HIDE DEF new, Moves
      <4>3. \A q \in Runs : q \in new.batch => outbox'[q].state # "absent"
        BY <1>1, <3>1, <4>2 DEF Holds, RowsStay
      <4>4. QED
        BY <2>1, <3>1, <4>1, <4>2, <4>3
    <3>3. CASE disp[d].outcome # "ok"
      BY <1>1, <2>2, <2>7, <3>1, <3>3 DEF S!O!StorageError
    <3>4. QED
      BY <3>2, <3>3
  <2> HIDE DEF Moves
  <2>8. QED
    BY <2>3, <2>4, <2>5, <2>6, <2>7 DEF S!Dispatch, S!Settle, S!Crash
<1>6. OthersStay(d)
  BY <1>1, <1>4, <1>5 DEF OthersStay
<1>7. Holds(d)'
  BY <1>4, <1>5 DEF Holds
<1>8. QED
  BY <1>2, <1>3, <1>4, <1>5, <1>6, <1>7, DispatcherMoved

\* Steps outside the worker.
LEMMA TickStep ==
  ASSUME SourceIInv, kind = "source_run", kind' = kind, S!Tick
  PROVE  SourceIInv'
<1>1. /\ SourceTypes /\ RunsFit /\ RowsStay(Runs)
      /\ disp = [x \in Dispatchers |-> disp[x]]
      /\ UNCHANGED <<disp, remote, touched, known, seen, archived, run, stage, page>>
  BY SourceRows DEF SourceIInv, RunsFit, S!Tick, S!O!Tick, S!local, S!world, S!identities
<1>2. SourceTypes' /\ RunsFit'
  BY <1>1 DEF SourceTypes, RunsFit, RowsStay
<1>3. \A r \in Runs : Mirrored(r)'
  BY <1>1 DEF SourceIInv, Mirrored
<1>4. \A d \in Dispatchers : Holds(d)'
  BY <1>1 DEF SourceIInv, Holds, RowsStay
<1>5. \A d \in Dispatchers : Answered(d)'
  BY <1>1 DEF SourceIInv, Answered, Right, S!O!Current
<1>6. QED
  BY <1>1, <1>2, <1>3, <1>4, <1>5 DEF SourceIInv

\* The provider gains or loses a record: nothing is promised of its key.
LEMMA ProviderStep ==
  ASSUME SourceIInv, kind = "source_run", kind' = kind, NEW k \in Keys, S!RemoteChanges(k)
  PROVE  SourceIInv'
<1>1. /\ SourceTypes /\ RunsFit /\ disp = [x \in Dispatchers |-> disp[x]]
      /\ touched' = touched \union {k}
      /\ remote' \subseteq remote \union {k} /\ remote \subseteq remote' \union {k}
      /\ UNCHANGED <<outbox, disp, known, seen, archived, run, stage, page>>
  BY DEF SourceIInv, S!RemoteChanges, S!outboxVars, S!identities
<1>2. SourceTypes' /\ RunsFit'
  BY <1>1 DEF SourceTypes, RunsFit, Rows
<1>3. \A r \in Runs : Mirrored(r)'
  BY <1>1 DEF SourceIInv, Mirrored
<1>4. \A d \in Dispatchers : Holds(d)'
  BY <1>1 DEF SourceIInv, Holds
<1>5. ASSUME NEW d \in Dispatchers PROVE Answered(d)'
  <2>1. Answered(d)
    BY DEF SourceIInv
  <2>2. \A answer, c : Right(answer, c) => Right(answer, c)'
    BY <1>1 DEF Right
  <2>3. QED
    BY <1>1, <2>1, <2>2 DEF Answered, S!O!Current
<1>6. QED
  BY <1>1, <1>2, <1>3, <1>4, <1>5 DEF SourceIInv

\* A run is queued: nothing has been applied or asked for it.
LEMMA QueueStep ==
  ASSUME SourceIInv, kind = "source_run", kind' = kind, NEW r \in Runs, S!Queue(r)
  PROVE  SourceIInv'
<1>1. /\ SourceTypes /\ RunsFit /\ Rows(Runs)
      /\ disp = [x \in Dispatchers |-> disp[x]]
  BY DEF SourceIInv, RunsFit
<1>2. /\ RowInserted(Runs, r) /\ RowsStay(Runs)
      /\ \A q \in Runs : run[q].status \notin S!Active
      /\ run' = [run EXCEPT ![r].status = "queued"]
      /\ UNCHANGED <<disp, remote, known, seen, archived, stage, page>>
  BY <1>1, SourceRows DEF S!Queue, S!Busy, S!O!Enqueue, S!identities, RowInserted
<1>3. run[r].status = "absent"
  BY <1>1, <1>2 DEF RunsFit, RowInserted
<1>4. /\ run[r].pages = 0 /\ run[r].cursor = 0 /\ \A k \in Keys : seen[k] # r
      /\ run[r] \in [status : {"absent"} \union S!Active \union S!Terminal,
                     pages  : Nat,
                     cursor : {0} \union Keys]
  BY <1>1, <1>3 DEF RunsFit, SourceTypes
<1> DEFINE new == [run[r] EXCEPT !.status = "queued"]
<1>5. /\ new \in [status : {"absent"} \union S!Active \union S!Terminal,
                  pages  : Nat,
                  cursor : {0} \union Keys]
      /\ new.pages = 0 /\ new.cursor = 0 /\ new.status = "queued"
      /\ run' = [run EXCEPT ![r] = new]
  BY <1>1, <1>2, <1>4 DEF S!Active, SourceTypes
<1> HIDE DEF new
<1>6. run'[r] = new /\ \A q \in Runs \ {r} : run'[q] = run[q]
  BY <1>1, <1>5 DEF SourceTypes
<1>7. SourceTypes'
  BY <1>1, <1>2, <1>5 DEF SourceTypes
<1>8. RunsFit'
  BY <1>1, <1>2, <1>4, <1>5, <1>6 DEF RunsFit, RowInserted, RowsStay, S!Active
<1>9. ASSUME NEW q \in Runs PROVE Mirrored(q)'
  <2>1. CASE q # r
    BY <1>2, <1>6, <2>1 DEF Mirrored
  <2>2. CASE q = r
    <3>1. Keys \subseteq Nat \ {0}
      BY WorkerAssumption
    <3>2. QED
      BY <1>2, <1>4, <1>5, <1>6, <2>2, <3>1 DEF Mirrored
  <2>3. QED
    BY <2>1, <2>2
<1>10. ASSUME NEW d \in Dispatchers PROVE Holds(d)' /\ Answered(d)'
  <2>1. Holds(d) /\ Answered(d)
    BY DEF SourceIInv
  <2>2. Holds(d)'
    BY <1>2, <2>1 DEF Holds, RowsStay
  <2>3. ASSUME stage[d] = "applying", NEW q \in Runs, S!O!Current(d, q)
        PROVE  q # r /\ page[d].number <= run[q].pages + 1
    BY <1>2, <2>1, <2>3 DEF Holds, Answered, S!O!Current, RowInserted
  <2>4. Answered(d)'
    <3>1. ASSUME stage'[d] = "applying", NEW q \in Runs, S!O!Current(d, q)'
          PROVE  page'[d].number <= run'[q].pages + 1 /\ run'[q].status \notin S!Active
      <4>1. stage[d] = "applying" /\ S!O!Current(d, q)
        BY <1>2, <3>1 DEF S!O!Current
      <4>2. QED
        BY <1>2, <1>6, <2>3, <4>1
    <3>2. QED
      BY <3>1 DEF Answered
  <2>5. QED
    BY <2>2, <2>4
<1>11. QED
  BY <1>1, <1>2, <1>7, <1>8, <1>9, <1>10 DEF SourceIInv

\* A dispatcher works on one event at a time.
LEMMA OneCurrent ==
  ASSUME NEW d, NEW r \in Runs, NEW q \in Runs, S!O!Current(d, r), S!O!Current(d, q)
  PROVE  r = q
<1>1. r <= q /\ q <= r /\ r \in Nat /\ q \in Nat
  BY WorkerAssumption DEF S!O!Current
<1>2. QED
  BY <1>1

\* A request reads the run and is answered for its cursor.
LEMMA RequestStep ==
  ASSUME SourceIInv, kind = "source_run", kind' = kind,
         NEW d \in Dispatchers, NEW r \in Runs, S!Request(d, r)
  PROVE  SourceIInv'
<1>1. /\ SourceTypes /\ RunsFit /\ Holds(d) /\ disp = [x \in Dispatchers |-> disp[x]]
      /\ Keys \subseteq Nat \ {0}
  BY WorkerAssumption DEF SourceIInv
<1>2. PICK c \in {0} \union Keys, pages \in Nat : c = run[r].cursor /\ pages = run[r].pages
  BY <1>1 DEF SourceTypes
<1>3. PICK k \in {0} \union Keys, more \in BOOLEAN :
        /\ IF S!After(c) = {} THEN k = 0 ELSE k \in S!After(c)
        /\ \A other \in S!After(c) : k <= other
        /\ more = (S!After(c) \ {k} # {})
        /\ page' = [page EXCEPT ![d] = [number |-> pages + 1, key |-> k, more |-> more]]
  BY <1>2 DEF S!Request
<1>4. /\ UNCHANGED <<outbox, disp, remote, touched, run, known, seen, archived>>
      /\ stage' = [stage EXCEPT ![d] = "applying"]
      /\ S!O!Current(d, r) /\ disp[d].outcome = "running"
  BY DEF S!Request, S!outboxVars, S!world, S!identities, S!Handling
<1> DEFINE answer == [number |-> pages + 1, key |-> k, more |-> more]
<1>5. answer \in S!Page
  BY DEF S!Page
<1>6. Right(answer, c)
  <2>1. S!After(c) = {i \in remote : i > c}
    BY DEF S!After
  <2>2. ASSUME k = 0
        PROVE  ~answer.more /\ \A i \in remote \ touched : i <= c
    <3>1. S!After(c) = {}
      BY <1>1, <1>3, <2>1, <2>2 DEF SourceTypes
    <3>2. \A i \in remote : i \in Nat /\ ~(i > c)
      BY <1>1, <2>1, <3>1 DEF SourceTypes
    <3>3. c \in Nat
      BY <1>1
    <3>4. ~more
      BY <1>3, <3>1, Zenon
    <3>5. \A i \in remote \ touched : i <= c
      BY <3>2, <3>3
    <3>6. QED
      BY <3>4, <3>5
  <2>3. ASSUME k # 0
        PROVE  /\ k > c /\ k \in remote
               /\ \A i \in remote : i > c => k <= i /\ (answer.more \/ i = k)
    <3>1. S!After(c) # {} /\ k \in S!After(c)
      BY <1>3, <2>3
    <3>2. ASSUME NEW i \in remote, i > c PROVE k <= i /\ (more \/ i = k)
      <4>1. i \in S!After(c)
        BY <2>1, <3>2
      <4>2. k <= i
        BY <1>3, <4>1
      <4>3. more \/ i = k
        BY <1>3, <4>1, Zenon
      <4>4. QED
        BY <4>2, <4>3
    <3>3. QED
      BY <2>1, <3>1, <3>2
  <2>4. QED
    BY <2>2, <2>3 DEF Right
<1>7. answer.number = pages + 1
  OBVIOUS
<1>8. page' = [page EXCEPT ![d] = answer]
  BY <1>3
<1> HIDE DEF answer
<1>9. /\ page'[d] = answer /\ page' \in [Dispatchers -> S!Page]
      /\ stage'[d] = "applying" /\ stage' = [x \in Dispatchers |-> stage'[x]]
      /\ \A x \in Dispatchers \ {d} : page'[x] = page[x] /\ stage'[x] = stage[x]
  BY <1>1, <1>4, <1>5, <1>8 DEF SourceTypes
<1>10. SourceTypes' /\ RunsFit'
  BY <1>1, <1>4, <1>9 DEF SourceTypes, RunsFit, Rows
<1>11. \A q \in Runs : Mirrored(q)'
  BY <1>4 DEF SourceIInv, Mirrored
<1>12. ASSUME NEW x \in Dispatchers PROVE Holds(x)' /\ Answered(x)'
  <2>1. CASE x = d
    <3>1. Holds(d)'
      BY <1>1, <1>4, <1>9 DEF Holds, S!O!Current
    <3>2. ASSUME NEW q \in Runs, S!O!Current(d, q)'
          PROVE  /\ page'[d].number = run'[q].pages + 1
                 /\ Right(answer, c)' /\ run'[q].cursor = c
      <4>1. q = r
        <5>1. S!O!Current(d, q)
          BY <1>4, <3>2 DEF S!O!Current
        <5>2. QED
          BY <1>4, <5>1, OneCurrent
      <4>2. QED
        BY <1>4, <1>6, <1>7, <1>9, <1>2, <4>1 DEF Right
    <3>3. \A q \in Runs : run'[q].pages \in Nat
      BY <1>10 DEF SourceTypes
    <3>4. QED
      BY <1>9, <2>1, <3>1, <3>2, <3>3, SMTT(30) DEF Answered
  <2>2. CASE x # d
    <3>1. Holds(x) /\ Answered(x)
      BY DEF SourceIInv
    <3>2. \A a, i : Right(a, i) => Right(a, i)'
      BY <1>4 DEF Right
    <3>3. QED
      BY <1>4, <1>9, <2>2, <3>1, <3>2 DEF Holds, Answered, S!O!Current
  <2>3. QED
    BY <2>1, <2>2
<1>13. QED
  BY <1>1, <1>4, <1>10, <1>11, <1>12 DEF SourceIInv

\* What the table shows when a run has succeeded.
Mirrors ==
  \A k \in Keys \ touched :
    IF k \in remote THEN k \in S!Live' ELSE Archives => k \notin S!Live'

\* A page that is applied is the next one, and answers for the cursor.
LEMMA NextPage ==
  ASSUME SourceIInv, kind = "source_run", NEW d \in Dispatchers, NEW r \in Runs,
         S!ApplyPage(d, r)
  PROVE  /\ page[d].number = run[r].pages + 1 /\ Right(page[d], run[r].cursor)
         /\ run[r].status \in S!Active /\ Mirrored(r)
<1>1. /\ SourceTypes /\ Answered(d) /\ Mirrored(r) /\ S!O!Current(d, r)
      /\ stage[d] = "applying" /\ run[r].status = "running"
      /\ ~(run[r].pages >= page[d].number)
  BY DEF SourceIInv, S!ApplyPage, S!Handling, S!MayApply, S!Overtaken
<1>2. page[d].number \in Nat /\ run[r].pages \in Nat
  BY <1>1 DEF SourceTypes, S!Page
<1>3. page[d].number <= run[r].pages + 1
  BY <1>1 DEF Answered
<1>4. page[d].number = run[r].pages + 1 /\ run[r].status \in S!Active
  BY <1>1, <1>2, <1>3 DEF S!Active
<1>5. QED
  BY <1>1, <1>4 DEF Answered

\* The records seen after a page, and what it makes of the table.
LEMMA PageMirrors ==
  ASSUME SourceIInv, kind = "source_run", NEW d \in Dispatchers, NEW r \in Runs,
         S!ApplyPage(d, r),
         NEW p \in S!Page, p = page[d], NEW c \in {0} \union Keys, c = run[r].cursor
  PROVE  /\ seen' \in [Keys -> {0} \union Runs] /\ archived' \subseteq known'
         /\ \A k \in Keys : seen'[k] = (IF k = p.key THEN r ELSE seen[k])
         /\ p.more =>
              \A k \in Keys :
                /\ seen'[k] = r => k \in known' \ archived'
                /\ k > p.key => seen'[k] # r
                /\ k <= p.key /\ k \notin touched => (k \in remote <=> seen'[k] = r)
         /\ ~p.more => Mirrors
<1>1. /\ SourceTypes /\ Mirrored(r) /\ Right(p, c) /\ run[r].status \in S!Active
      /\ Keys \subseteq Nat \ {0} /\ p.key \in {0} \union Keys /\ c \in Nat
      /\ remote \subseteq Keys /\ archived \subseteq known
  BY NextPage, WorkerAssumption DEF SourceIInv, SourceTypes, S!Page
<1>2. /\ S!Received(d) = {p.key} \ {0}
      /\ known' = known \union S!Received(d)
      /\ seen' = S!SeenAfter(d, r)
      /\ archived' = (archived \ S!Received(d)) \union S!Missing(d, r)
  BY DEF S!ApplyPage, S!Received
<1>3. \A k \in Keys : k \in S!Received(d) <=> k = p.key
  BY <1>1, <1>2
<1>4. /\ seen' = [k \in Keys |-> IF k = p.key THEN r ELSE seen[k]]
      /\ \A k \in Keys : seen'[k] = (IF k = p.key THEN r ELSE seen[k])
  BY <1>2, <1>3 DEF S!SeenAfter
<1>5. S!Missing(d, r) =
        IF Archives /\ ~p.more THEN {k \in known : S!SeenAfter(d, r)[k] # r} ELSE {}
  BY DEF S!Missing
<1>6. seen' \in [Keys -> {0} \union Runs] /\ archived' \subseteq known'
  BY <1>1, <1>2, <1>4, <1>5 DEF SourceTypes
<1>7. /\ \A k \in Keys : seen[k] = r => k \in known \ archived
      /\ \A k \in Keys : k > c => seen[k] # r
      /\ \A k \in Keys : k <= c /\ k \notin touched => (k \in remote <=> seen[k] = r)
  BY <1>1 DEF Mirrored
<1>8. /\ p.key = 0 => ~p.more /\ \A k \in remote \ touched : k <= c
      /\ p.key # 0 =>
           /\ p.key > c
           /\ p.key \in remote \union touched
           /\ \A k \in remote \ touched :
                k > c => p.key <= k /\ (p.more \/ k = p.key)
  BY <1>1 DEF Right
\* Up to the key of the page, untouched records are seen if the provider has them.
<1>9. ASSUME NEW k \in Keys, k \notin touched, k <= c \/ k <= p.key \/ ~p.more
      PROVE  k \in remote <=> seen'[k] = r
  <2>1. k \in Nat
    BY <1>1
  <2>2. CASE k <= c
    <3>1. k # p.key
      BY <1>1, <1>8, <2>1, <2>2
    <3>2. QED
      BY <1>4, <1>7, <1>9, <2>2, <3>1
  <2>3. CASE k > c /\ k = p.key
    BY <1>1, <1>4, <1>8, <1>9, <2>3
  <2>4. CASE k > c /\ k # p.key
    <3>1. seen[k] # r
      BY <1>7, <2>4
    <3>2. k \notin remote
      <4>1. SUFFICES ASSUME k \in remote PROVE FALSE
        OBVIOUS
      <4>2. p.key # 0
        BY <1>1, <1>8, <1>9, <2>1, <2>4, <4>1
      <4>3. p.key <= k /\ (p.more \/ k = p.key)
        BY <1>8, <1>9, <2>4, <4>1, <4>2
      <4>4. p.key \in Nat
        BY <1>1, <4>2
      <4>5. QED
        BY <1>1, <1>9, <2>1, <2>4, <4>3, <4>4
    <3>3. QED
      BY <1>4, <2>4, <3>1, <3>2
  <2>5. QED
    BY <1>1, <2>1, <2>2, <2>3, <2>4
<1>10. ASSUME NEW k \in Keys, seen'[k] = r PROVE k \in known' \ archived'
  <2>1. k \in S!Received(d) \/ seen[k] = r
    BY <1>3, <1>4, <1>10
  <2>2. k \in known' /\ k \notin archived \ S!Received(d)
    BY <1>2, <1>7, <2>1
  <2>3. k \notin S!Missing(d, r)
    BY <1>2, <1>5, <1>10
  <2>4. QED
    BY <1>2, <2>2, <2>3
<1>11. ASSUME p.more, NEW k \in Keys, k > p.key PROVE seen'[k] # r
  <2>1. p.key # 0 /\ p.key > c /\ k \in Nat /\ p.key \in Nat
    BY <1>1, <1>8, <1>11
  <2>2. k > c /\ k # p.key
    BY <1>1, <1>11, <2>1
  <2>3. QED
    BY <1>4, <1>7, <2>2
<1>12. ASSUME ~p.more PROVE Mirrors
  <2>1. ASSUME NEW k \in Keys, k \notin touched, k \in remote PROVE k \in S!Live'
    BY <1>9, <1>10, <1>12, <2>1 DEF S!Live
  <2>2. ASSUME NEW k \in Keys, k \notin touched, k \notin remote, Archives
        PROVE  k \notin S!Live'
    <3>1. seen'[k] # r
      BY <1>9, <1>12, <2>2
    <3>2. k \in known => k \in S!Missing(d, r)
      BY <1>2, <1>5, <1>12, <2>2, <3>1
    <3>3. k \notin S!Received(d)
      BY <1>3, <1>4, <2>2, <3>1
    <3>4. QED
      BY <1>2, <3>2, <3>3 DEF S!Live
  <2>3. QED
    BY <2>1, <2>2 DEF Mirrors
<1>13. QED
  BY <1>4, <1>6, <1>9, <1>10, <1>11, <1>12

\* The run after the page.
LEMMA PageCheckpoint ==
  ASSUME SourceIInv, NEW d \in Dispatchers, NEW r \in Runs,
         NEW p \in S!Page, p = page[d]
  PROVE  /\ S!Checkpoint(d) \in [status : {"absent"} \union S!Active \union S!Terminal,
                                 pages  : Nat,
                                 cursor : {0} \union Keys]
         /\ S!Checkpoint(d).pages = p.number
         /\ S!Checkpoint(d).cursor = (IF p.more THEN p.key ELSE 0)
         /\ S!Checkpoint(d).status = (IF p.more THEN "running" ELSE "succeeded")
BY DEF S!Checkpoint, S!Page, S!Active, S!Terminal

\* A page is applied.
LEMMA PageStep ==
  ASSUME SourceIInv, kind = "source_run", kind' = kind,
         NEW d \in Dispatchers, NEW r \in Runs, S!ApplyPage(d, r)
  PROVE  /\ SourceIInv'
         /\ \A q \in Runs : run[q].status # "succeeded" /\ run'[q].status = "succeeded" =>
              Mirrors
<1>1. /\ SourceTypes /\ RunsFit /\ disp = [x \in Dispatchers |-> disp[x]]
  BY DEF SourceIInv
<1>2. PICK p \in S!Page, c \in {0} \union Keys, new \in {S!Checkpoint(d)} :
        p = page[d] /\ c = run[r].cursor
  BY <1>1 DEF SourceTypes
<1>3. /\ p.number = run[r].pages + 1 /\ run[r].status \in S!Active
  BY <1>2, NextPage
<1>4. /\ new \in [status : {"absent"} \union S!Active \union S!Terminal,
                  pages  : Nat,
                  cursor : {0} \union Keys]
      /\ new.pages = p.number
      /\ new.cursor = (IF p.more THEN p.key ELSE 0)
      /\ new.status = (IF p.more THEN "running" ELSE "succeeded")
  BY <1>2, PageCheckpoint
<1>5. /\ run' = [run EXCEPT ![r] = new]
      /\ UNCHANGED <<outbox, remote, touched>>
  BY <1>2 DEF S!ApplyPage, S!world
<1>6. run'[r] = new /\ \A q \in Runs \ {r} : run'[q] = run[q]
  BY <1>1, <1>5 DEF SourceTypes
<1>7. OthersStay(d) /\ Holds(d)' /\ stage'[d] # "applying"
  <2>1. r \in disp[d].batch /\ disp[d].outcome = "running" /\ outbox' = outbox
    BY DEF S!ApplyPage, S!Handling, S!O!Current
  <2>2. CASE p.more
    <3>1. S!GoesTo(d, "requesting") /\ disp' = disp
      BY <1>2, <2>2 DEF S!ApplyPage
    <3>2. QED
      BY <2>1, <3>1, HandlerMoves
  <2>3. CASE ~p.more
    <3>1. S!Leaves(d, "ok")
      BY <1>2, <2>3 DEF S!ApplyPage
    <3>2. QED
      BY <2>1, <3>1, HandlerMoves
  <2>4. QED
    BY <2>2, <2>3
<1>8. /\ seen' \in [Keys -> {0} \union Runs] /\ archived' \subseteq known'
      /\ \A k \in Keys : seen'[k] = (IF k = p.key THEN r ELSE seen[k])
      /\ ~p.more => Mirrors
  BY <1>2, PageMirrors
<1>9. p.more =>
        \A k \in Keys :
          /\ seen'[k] = r => k \in known' \ archived'
          /\ k > p.key => seen'[k] # r
          /\ k <= p.key /\ k \notin touched => (k \in remote <=> seen'[k] = r)
  BY <1>2, PageMirrors
<1>10. SourceTypes'
  BY <1>1, <1>4, <1>5, <1>7, <1>8 DEF SourceTypes, OthersStay
<1>11. RunsFit'
  <2>1. Rows(Runs)'
    BY <1>1, <1>5 DEF RunsFit, Rows
  <2>2. run[r].status # "absent" /\ new.status # "absent"
    BY <1>3, <1>4 DEF S!Active
  <2>3. outbox[r].state # "absent"
    BY <1>1, <2>2 DEF RunsFit
  <2>4. ASSUME NEW q \in Runs
        PROVE  IF run'[q].status = "absent"
                 THEN run'[q].pages = 0 /\ run'[q].cursor = 0 /\ \A k \in Keys : seen'[k] # q
                 ELSE outbox'[q].state # "absent"
    BY <1>1, <1>5, <1>6, <1>8, <2>2, <2>3 DEF RunsFit
  <2>5. \A q \in Runs : run'[q].status \in S!Active => run[q].status \in S!Active
    BY <1>3, <1>6
  <2>6. QED
    BY <1>1, <2>1, <2>4, <2>5 DEF RunsFit
<1>12. ASSUME NEW q \in Runs PROVE Mirrored(q)'
  <2>1. CASE q = r /\ p.more
    BY <1>4, <1>5, <1>6, <1>9, <2>1 DEF Mirrored
  <2>2. CASE q = r /\ ~p.more
    BY <1>4, <1>6, <2>2 DEF Mirrored, S!Active
  <2>3. CASE q # r
    BY <1>1, <1>3, <1>6, <2>3 DEF Mirrored, RunsFit
  <2>4. QED
    BY <2>1, <2>2, <2>3
<1>13. ASSUME NEW x \in Dispatchers, x # d PROVE Holds(x)' /\ Answered(x)'
  <2>1. /\ Holds(x) /\ Answered(x)
        /\ disp'[x] = disp[x] /\ stage'[x] = stage[x] /\ page'[x] = page[x]
    BY <1>7, <1>13 DEF SourceIInv, OthersStay
  <2>2. Holds(x)'
    BY <1>5, <2>1 DEF Holds
  <2>3. PICK a \in S!Page : a = page[x]
    BY <1>1 DEF SourceTypes
  <2>4. ASSUME stage[x] = "applying", NEW q \in Runs, S!O!Current(x, q)
        PROVE  /\ a.number <= run'[q].pages + 1
               /\ a.number = run'[q].pages + 1 /\ run'[q].status \in S!Active =>
                    Right(a, run'[q].cursor)
    <3>1. /\ a.number <= run[q].pages + 1
          /\ a.number = run[q].pages + 1 /\ run[q].status \in S!Active =>
               Right(a, run[q].cursor)
      BY <2>1, <2>3, <2>4 DEF Answered
    <3>2. CASE q = r
      <4>1. a.number <= p.number /\ run'[r].pages = p.number
        BY <1>3, <1>4, <1>6, <3>1, <3>2
      <4>2. a.number \in Nat /\ p.number \in Nat
        BY DEF S!Page
      <4>3. a.number <= run'[r].pages + 1 /\ a.number # run'[r].pages + 1
        BY <4>1, <4>2
      <4>4. QED
        BY <3>2, <4>3
    <3>3. CASE q # r
      BY <1>6, <3>1, <3>3
    <3>4. QED
      BY <3>2, <3>3
  <2>5. \A b, i : Right(b, i) => Right(b, i)'
    BY <1>5 DEF Right
  <2>6. \A q \in Runs : S!O!Current(x, q)' => S!O!Current(x, q)
    BY <2>1 DEF S!O!Current
  <2>7. Answered(x)'
    BY <2>1, <2>3, <2>4, <2>5, <2>6 DEF Answered
  <2>8. QED
    BY <2>2, <2>7
<1>14. Answered(d)'
  BY <1>7 DEF Answered
<1>15. SourceIInv'
  BY <1>7, <1>10, <1>11, <1>12, <1>13, <1>14 DEF SourceIInv, OthersStay
<1>16. \A q \in Runs : run[q].status # "succeeded" /\ run'[q].status = "succeeded" => Mirrors
  BY <1>4, <1>6, <1>8
<1>17. QED
  BY <1>15, <1>16

\* A step in which a run succeeds leaves the table as the provider has been.
SuccessMirrors ==
  \A q \in Runs : run[q].status # "succeeded" /\ run'[q].status = "succeeded" => Mirrors

\* Only a page ends a run with success.
LEMMA OnlyPagesSucceed ==
  ASSUME SourceTypes,
         NEW r \in Runs, NEW status \in {"queued", "running", "failed", run[r].status},
         run' = [run EXCEPT ![r].status = status]
  PROVE  SuccessMirrors
<1>1. ASSUME NEW q \in Runs, run'[q].status = "succeeded" PROVE run[q].status = "succeeded"
  <2>1. CASE q = r
    BY <1>1, <2>1 DEF SourceTypes
  <2>2. CASE q # r
    BY <1>1, <2>2 DEF SourceTypes
  <2>3. QED
    BY <2>1, <2>2
<1>2. QED
  BY <1>1 DEF SuccessMirrors

\* Every step of a worker that executes source runs.
LEMMA SourceStep ==
  ASSUME SourceIInv, kind = "source_run", kind' = kind, S!Next
  PROVE  SourceIInv' /\ SuccessMirrors
<1> DEFINE Goal == SourceIInv' /\ SuccessMirrors
<1>1. SourceTypes
  BY DEF SourceIInv
<1>2. ASSUME SourceIInv', run' = run PROVE Goal
  BY <1>2 DEF SuccessMirrors
<1>3. ASSUME NEW k \in Keys, S!RemoteChanges(k) PROVE Goal
  BY <1>2, <1>3, ProviderStep DEF S!RemoteChanges
<1>4. ASSUME NEW r \in Runs, S!Queue(r) PROVE Goal
  <2>1. SuccessMirrors
    BY <1>1, <1>4, OnlyPagesSucceed DEF S!Queue
  <2>2. QED
    BY <1>4, <2>1, QueueStep
<1>5. ASSUME NEW d \in Dispatchers, S!Dispatch(d) \/ S!Settle(d) \/ S!Crash(d)
      PROVE  Goal
  BY <1>2, <1>5, LoopStep DEF S!Dispatch, S!Settle, S!Crash, S!local
<1>6. ASSUME S!Tick PROVE Goal
  BY <1>2, <1>6, TickStep DEF S!Tick, S!local
<1>7. ASSUME NEW d \in Dispatchers, NEW r \in Runs, S!Begin(d, r) \/ S!Fail(d, r) PROVE Goal
  <2>1. SourceIInv'
    BY <1>7, QuietHandlerStep
  <2>2. PICK status \in {"queued", "running", "failed", run[r].status} :
          run' = [run EXCEPT ![r].status = status]
    BY <1>7 DEF S!Begin, S!Fail
  <2>3. SuccessMirrors
    BY <1>1, <2>2, OnlyPagesSucceed
  <2>4. QED
    BY <2>1, <2>3
<1>8. ASSUME NEW d \in Dispatchers, NEW r \in Runs,
             \/ S!BeginOver(d, r)
             \/ \E failure \in {"retryable", "fatal"} : S!RequestFails(d, r, failure)
             \/ S!ApplyNothing(d, r)
             \/ S!ApplyRefused(d, r)
             \/ S!StorageFault(d, r)
      PROVE  Goal
  <2>1. SourceIInv'
    BY <1>8, QuietHandlerStep
  <2>2. QED
    BY <1>2, <1>8, <2>1
    DEF S!BeginOver, S!RequestFails, S!ApplyNothing, S!ApplyRefused, S!StorageFault
<1>9. ASSUME NEW d \in Dispatchers, NEW r \in Runs, S!Request(d, r) PROVE Goal
  BY <1>2, <1>9, RequestStep DEF S!Request
<1>10. ASSUME NEW d \in Dispatchers, NEW r \in Runs, S!ApplyPage(d, r) PROVE Goal
  BY <1>10, PageStep DEF SuccessMirrors
<1> HIDE DEF Goal
<1>11. Goal
  BY <1>3, <1>4, <1>5, <1>6, <1>7, <1>8, <1>9, <1>10 DEF S!Next, S!Work, S!Handler
<1>12. QED
  BY <1>11 DEF Goal

\* Every step of a worker, whatever its kind of event, and of the provider.
LEMMA SourceNext ==
  SourceIInv /\ [Next]_vars => SourceIInv' /\ SuccessMirrors
<1> SUFFICES ASSUME SourceIInv, [Next]_vars PROVE SourceIInv' /\ SuccessMirrors
  OBVIOUS
<1>1. CASE kind = "source_run" /\ kind' = kind /\ S!Next
  BY <1>1, SourceStep
<1>2. CASE kind # "source_run" /\ kind' = kind /\ UNCHANGED sourceVars
  BY <1>2 DEF SourceIInv, SuccessMirrors, sourceVars
<1>3. CASE UNCHANGED vars
  <2>1. SuccessMirrors
    BY <1>3 DEF vars, sourceVars, SuccessMirrors
  <2>2. SourceIInv'
    BY <1>3 DEF vars, sourceVars, SourceIInv, SourceTypes, RunsFit, Rows, Mirrored,
                Holds, Answered, Right, S!O!Current
  <2>3. QED
    BY <2>1, <2>2
<1>4. QED
  BY <1>1, <1>2, <1>3 DEF Next, Webhook, Batch, Import, Source

\* No run has been queued at first.
LEMMA RunsBegin ==
  Init => SourceIInv
<1> SUFFICES ASSUME Init, kind = "source_run" PROVE SourceIInv
  BY DEF SourceIInv
<1>1. S!SourceInit /\ S!O!Init /\ stage = [d \in Dispatchers |-> "outside"]
  BY DEF Init, S!SourceInit
<1>2. PICK table \in Tables :
        remote = table.remote /\ known = table.known /\ archived = table.archived
  BY <1>1 DEF S!SourceInit
<1>3. /\ run = [r \in Runs |-> [status |-> "absent", pages |-> 0, cursor |-> 0]]
      /\ seen = [k \in Keys |-> 0]
      /\ page = [d \in Dispatchers |-> S!NoPage]
  BY <1>1 DEF S!SourceInit
<1>4. SourceTypes
  <2>1. remote \subseteq Keys /\ archived \subseteq known
    BY <1>2, WorkerAssumption
  <2>2. S!NoPage \in S!Page
    BY DEF S!NoPage, S!Page
  <2>3. QED
    BY <1>1, <1>3, <2>1, <2>2 DEF SourceTypes
<1>5. RunsFit
  <2>1. Runs \subseteq Nat \ {0}
    BY WorkerAssumption
  <2>2. Rows(Runs)
    BY <1>1 DEF S!O!Init, Rows
  <2>3. QED
    BY <1>3, <2>1, <2>2 DEF RunsFit, S!Active
<1>6. \A r \in Runs : Mirrored(r)
  BY <1>3 DEF Mirrored, S!Active
<1>7. disp = [d \in Dispatchers |-> S!O!Idle]
  BY <1>1 DEF S!O!Init
<1>8. \A d \in Dispatchers : Holds(d) /\ Answered(d)
  BY <1>1, <1>7 DEF Holds, Answered, S!O!Idle
<1>9. QED
  BY <1>4, <1>5, <1>6, <1>7, <1>8 DEF SourceIInv

\* Whatever pages are fetched by workers that overtake each other, whatever
\* fails, crashes or changes at the provider, a run that succeeds leaves the
\* table showing the records the provider had throughout the run, and in a
\* reconciling source none that it lacked throughout.
THEOREM RunsMirror == Spec => RunMirrorsProvider
<1>1. Init => SourceIInv
  BY RunsBegin
<1>2. SourceIInv /\ [Next]_vars => SourceIInv' /\ SuccessMirrors
  BY SourceNext
<1>3. SuccessMirrors <=>
        \A r \in Runs :
          (run[r].status # "succeeded" /\ run'[r].status = "succeeded") =>
            \A k \in Keys \ touched :
              IF k \in remote THEN k \in S!Live' ELSE Archives => k \notin S!Live'
  BY DEF SuccessMirrors, Mirrors
<1>4. QED
  BY <1>1, <1>2, <1>3, PTL DEF Spec, RunMirrorsProvider, S!RunMirrorsProvider

-----------------------------------------------------------------------------
(* The outbox under the tasks: the theorems of OutboxProofs, for each kind.  *)

PD == INSTANCE OutboxProofs WITH Events <- Deliveries, MaxRetries <- WebhookRetries
PI == INSTANCE OutboxProofs WITH Events <- Batches, MaxRetries <- IngestionRetries
PC == INSTANCE OutboxProofs WITH Events <- Files, MaxRetries <- ImportRetries
PS == INSTANCE OutboxProofs WITH Events <- Runs, MaxRetries <- SourceRetries

\* The constants of a worker are such as its outbox assumes.
LEMMA OutboxesFit ==
  /\ PD!OutboxAssumption /\ PI!OutboxAssumption
  /\ PC!OutboxAssumption /\ PS!OutboxAssumption
BY WorkerAssumption
DEF PD!OutboxAssumption, PI!OutboxAssumption, PC!OutboxAssumption, PS!OutboxAssumption

\* The outbox of deliveries is the one of OutboxProofs.
LEMMA SameForDeliveries ==
  /\ \A d \in Dispatchers :
       /\ D!O!Claim(d) => PD!Claim(d)
       /\ D!O!StorageError(d) => PD!StorageError(d)
       /\ D!O!Crash(d) => PD!Crash(d)
       /\ \A e \in Deliveries :
            /\ D!O!Publish(d, e) => PD!Publish(d, e)
            /\ D!O!Retry(d, e) => PD!Retry(d, e)
            /\ D!O!LostClaim(d, e) => PD!LostClaim(d, e)
            /\ D!O!Current(d, e) => PD!Current(d, e)
  /\ \A e \in Deliveries : D!O!Enqueue(e) => PD!Enqueue(e)
  /\ D!O!Tick => PD!Tick
<1>1. D!O!Candidates = PD!Candidates
  <2>1. \A X : D!O!Cardinality(X) = PD!Cardinality(X)
    BY DEF D!O!Cardinality, PD!Cardinality
  <2>2. QED
    BY <2>1 DEF D!O!Candidates, PD!Candidates, D!O!Eligible, PD!Eligible
<1>2. ASSUME NEW d \in Dispatchers, NEW e \in Deliveries
      PROVE  /\ D!O!Publish(d, e) => PD!Publish(d, e)
             /\ D!O!Retry(d, e) => PD!Retry(d, e)
             /\ D!O!LostClaim(d, e) => PD!LostClaim(d, e)
             /\ D!O!Current(d, e) => PD!Current(d, e)
  BY Zenon DEF D!O!Current, PD!Current, D!O!Owns, PD!Owns, D!O!GivesUp, PD!GivesUp,
     D!O!Advance, PD!Advance, D!O!Released, PD!Released, D!O!Publish, PD!Publish,
     D!O!Retry, PD!Retry, D!O!RetryDelay, PD!RetryDelay, D!O!LostClaim, PD!LostClaim,
     D!O!Idle, PD!Idle
<1>3. ASSUME NEW d \in Dispatchers
      PROVE  /\ D!O!Claim(d) => PD!Claim(d)
             /\ D!O!StorageError(d) => PD!StorageError(d)
             /\ D!O!Crash(d) => PD!Crash(d)
  BY <1>1 DEF D!O!Claim, PD!Claim, D!O!StorageError, PD!StorageError, D!O!Crash,
     PD!Crash, D!O!Idle, PD!Idle, D!O!Fault, PD!Fault
<1>4. D!O!Tick => PD!Tick
  BY Zenon DEF D!O!Tick, PD!Tick, D!O!Overdue, PD!Overdue, D!O!Owns, PD!Owns
<1>5. \A e \in Deliveries : D!O!Enqueue(e) => PD!Enqueue(e)
  BY DEF D!O!Enqueue, PD!Enqueue
<1>6. QED
  BY <1>2, <1>3, <1>4, <1>5

\* Deliveries that are queued or running.
OpenDeliveries == {e \in Deliveries : delivery[e] \in D!Active}

\* What the outbox owes to deliveries and keeps: its own invariant, and that
\* a delivery is over when its event is published.
DeliveriesEntrusted ==
  kind = "webhook_delivery" =>
    /\ PD!IInv
    /\ errors \in Nat
    /\ PD!Entrusted(outbox, disp, OpenDeliveries, errors > 0)

\* A handler of deliveries leaves a delivery over when it ends for good.
LEMMA DeliveryHandlerEnds ==
  ASSUME DeliveryIInv, PD!TypeOK, errors \in Nat, kind = "webhook_delivery",
         NEW d \in Dispatchers, NEW e \in Deliveries,
         D!Handler(d, e) \/ D!RecordThenFault(d, e) \/ D!StorageFault(d, e)
  PROVE  /\ PD!HandlerEnds(d, e, OpenDeliveries', errors' > 0)
         /\ OpenDeliveries' \subseteq OpenDeliveries
         /\ errors' \in Nat /\ (errors > 0 => errors' > 0)
<1> DEFINE Goal == /\ PD!HandlerEnds(d, e, OpenDeliveries', errors' > 0)
                   /\ OpenDeliveries' \subseteq OpenDeliveries
                   /\ errors' \in Nat /\ (errors > 0 => errors' > 0)
<1>1. /\ PD!Current(d, e) /\ disp[d].outcome = "running"
      /\ outbox' = outbox /\ faults' = faults
  BY SameForDeliveries
  DEF D!Handler, D!Begin, D!BeginOver, D!Load, D!Send, D!Record, D!RecordRefused,
      D!Fail, D!RecordThenFault, D!StorageFault, D!Handling, D!outboxVars
<1>2. errors' \in Nat /\ (errors > 0 => errors' > 0)
  BY DEF D!Handler, D!Begin, D!BeginOver, D!Load, D!Send, D!Record, D!RecordRefused,
      D!Fail, D!RecordThenFault, D!StorageFault, D!Error
<1>3. ASSUME NEW value, delivery' = [delivery EXCEPT ![e] = value],
             value \in D!Active => delivery[e] \in D!Active
      PROVE  /\ OpenDeliveries' \subseteq OpenDeliveries
             /\ e \in OpenDeliveries' => value \in D!Active
  BY <1>3 DEF OpenDeliveries, DeliveryIInv
<1>4. ASSUME delivery' = delivery PROVE OpenDeliveries' = OpenDeliveries
  BY <1>4 DEF OpenDeliveries
<1>5. ASSUME disp' = disp, OpenDeliveries' \subseteq OpenDeliveries PROVE Goal
  <2>1. ~PD!Concludes([disp[d] EXCEPT !.outcome = "running"], e)
    BY DEF PD!Concludes, PD!TypeOK, PD!Dispatcher
  <2>2. QED
    BY <1>1, <1>2, <1>5, <2>1 DEF PD!Outcome, PD!HandlerEnds
<1>6. ASSUME NEW result \in {"ok", "retryable", "fatal"},
             disp' = [disp EXCEPT ![d].outcome = result],
             OpenDeliveries' \subseteq OpenDeliveries,
             \/ e \notin OpenDeliveries'
             \/ errors' > 0
             \/ result = "retryable" /\ ~(disp[d].attempt[e] - 1 >= WebhookRetries)
      PROVE  Goal
  <2>1. /\ [disp[d] EXCEPT !.outcome = result].outcome = result
        /\ [disp[d] EXCEPT !.outcome = result].attempt = disp[d].attempt
    BY DEF PD!TypeOK, PD!Dispatcher
  <2>2. PD!Concludes([disp[d] EXCEPT !.outcome = result], e) =>
          e \notin OpenDeliveries' \/ errors' > 0
    BY <1>6, <2>1 DEF PD!Concludes
  <2>3. QED
    BY <1>1, <1>2, <1>6, <2>2 DEF PD!Outcome, PD!HandlerEnds
<1> HIDE DEF Goal
<1>7. ASSUME D!Begin(d, e) PROVE Goal
  BY <1>3, <1>5, <1>7 DEF D!Begin, D!MayBegin, D!Active, D!outboxVars
<1>8. ASSUME D!BeginOver(d, e) PROVE Goal
  <2>1. OpenDeliveries' = OpenDeliveries /\ e \notin OpenDeliveries
    BY <1>4, <1>8 DEF D!BeginOver, D!MayBegin, OpenDeliveries
  <2>2. QED
    BY <1>6, <1>8, <2>1 DEF D!BeginOver, D!Leaves
<1>9. ASSUME D!Load(d, e) \/ D!RecordRefused(d, e) \/ \E answer \in D!Answer : D!Send(d, e, answer) PROVE Goal
  BY <1>4, <1>5, <1>9 DEF D!Load, D!Send, D!RecordRefused, D!outboxVars
<1>10. ASSUME D!Record(d, e) \/ D!RecordThenFault(d, e) PROVE Goal
  <2>1. "succeeded" \notin D!Active /\ delivery' = [delivery EXCEPT ![e] = "succeeded"]
    BY <1>10 DEF D!Record, D!RecordThenFault, D!Active
  <2>2. OpenDeliveries' \subseteq OpenDeliveries /\ e \notin OpenDeliveries'
    BY <1>3, <2>1
  <2>3. disp' = disp \/ disp' = [disp EXCEPT ![d].outcome = "ok"]
    BY <1>10 DEF D!Record, D!RecordThenFault, D!Leaves, D!outboxVars
  <2>4. QED
    BY <1>5, <1>6, <2>2, <2>3
<1>11. ASSUME D!Fail(d, e) PROVE Goal
  <2>1. /\ delivery' = [delivery EXCEPT ![e] = D!FailureStatus(d, e)]
        /\ stage[d] \in {"retryable", "fatal"}
        /\ disp' = [disp EXCEPT ![d].outcome = stage[d]]
    BY <1>11 DEF D!Fail, D!Leaves, D!Handling
  <2>2. D!FailureStatus(d, e) \in D!Active => delivery[e] \in D!Active /\ D!Retries(d, e)
    BY DEF D!FailureStatus, D!Active
  <2>3. D!Retries(d, e) =>
          stage[d] = "retryable" /\ ~(disp[d].attempt[e] - 1 >= WebhookRetries)
    BY WorkerAssumption DEF D!Retries, PD!TypeOK, PD!Dispatcher
  <2>4. QED
    BY <1>3, <1>6, <2>1, <2>2, <2>3
<1>12. ASSUME D!StorageFault(d, e) PROVE Goal
  <2>1. errors' > 0 /\ (disp' = disp \/ disp' = [disp EXCEPT ![d].outcome = "retryable"])
    BY <1>12 DEF D!StorageFault, D!Leaves, D!Error
  <2>2. OpenDeliveries' = OpenDeliveries
    BY <1>4, <1>12 DEF D!StorageFault
  <2>3. QED
    BY <1>5, <1>6, <2>1, <2>2
<1>13. QED
  BY <1>7, <1>8, <1>9, <1>10, <1>11, <1>12 DEF D!Handler, Goal

\* Every step of a worker that delivers webhooks.
LEMMA DeliveryTasks ==
  ASSUME DeliveryIInv, PD!TypeOK, errors \in Nat, kind = "webhook_delivery", D!Next
  PROVE  /\ errors' \in Nat
         /\ PD!TaskStep(OpenDeliveries, errors > 0, OpenDeliveries', errors' > 0)
<1> DEFINE Goal ==
      /\ errors' \in Nat
      /\ PD!TaskStep(OpenDeliveries, errors > 0, OpenDeliveries', errors' > 0)
<1>1. ASSUME delivery' = delivery, errors' = errors, PD!LoopStep \/ UNCHANGED PD!vars
      PROVE  Goal
  BY <1>1 DEF OpenDeliveries, PD!TaskStep
<1>2. ASSUME NEW e \in Deliveries, D!Queue(e) PROVE Goal
  <2>1. PD!Enqueue(e) /\ errors' = errors /\ delivery' = [delivery EXCEPT ![e] = "queued"]
    BY <1>2, SameForDeliveries DEF D!Queue
  <2>2. OpenDeliveries' \subseteq OpenDeliveries \union {e}
    BY <2>1 DEF OpenDeliveries, DeliveryIInv
  <2>3. QED
    BY <2>1, <2>2 DEF PD!TaskStep
<1>3. ASSUME D!Revoke \/ \E value \in BOOLEAN : D!SetPaused(value) PROVE Goal
  BY <1>1, <1>3 DEF D!Revoke, D!SetPaused, D!outboxVars, PD!vars
<1>4. ASSUME NEW d \in Dispatchers, D!Dispatch(d) \/ D!Settle(d) \/ D!Crash(d) PROVE Goal
  <2>1. delivery' = delivery /\ errors' = errors
    BY <1>4 DEF D!Dispatch, D!Settle, D!Crash, D!local
  <2>2. PD!LoopStep
    BY <1>4, SameForDeliveries DEF D!Dispatch, D!Settle, D!Crash, PD!LoopStep
  <2>3. QED
    BY <1>1, <2>1, <2>2
<1>5. ASSUME D!Tick PROVE Goal
  BY <1>1, <1>5, SameForDeliveries DEF D!Tick, D!local, PD!LoopStep
<1>6. ASSUME NEW d \in Dispatchers, NEW e \in Deliveries,
             D!Handler(d, e) \/ D!RecordThenFault(d, e) \/ D!StorageFault(d, e)
      PROVE  Goal
  BY <1>6, DeliveryHandlerEnds DEF PD!TaskStep
<1> HIDE DEF Goal
<1>7. Goal
  BY <1>2, <1>3, <1>4, <1>5, <1>6 DEF D!Next, D!Work
<1>8. QED
  BY <1>7 DEF Goal

\* The outbox of batches is the one of OutboxProofs.
LEMMA SameForBatches ==
  /\ \A d \in Dispatchers :
       /\ I!O!Claim(d) => PI!Claim(d)
       /\ I!O!StorageError(d) => PI!StorageError(d)
       /\ I!O!Crash(d) => PI!Crash(d)
       /\ \A e \in Batches :
            /\ I!O!Publish(d, e) => PI!Publish(d, e)
            /\ I!O!Retry(d, e) => PI!Retry(d, e)
            /\ I!O!LostClaim(d, e) => PI!LostClaim(d, e)
            /\ I!O!Current(d, e) => PI!Current(d, e)
  /\ \A e \in Batches : I!O!Enqueue(e) => PI!Enqueue(e)
  /\ I!O!Tick => PI!Tick
<1>1. I!O!Candidates = PI!Candidates
  <2>1. \A X : I!O!Cardinality(X) = PI!Cardinality(X)
    BY DEF I!O!Cardinality, PI!Cardinality
  <2>2. QED
    BY <2>1 DEF I!O!Candidates, PI!Candidates, I!O!Eligible, PI!Eligible
<1>2. ASSUME NEW d \in Dispatchers, NEW e \in Batches
      PROVE  /\ I!O!Publish(d, e) => PI!Publish(d, e)
             /\ I!O!Retry(d, e) => PI!Retry(d, e)
             /\ I!O!LostClaim(d, e) => PI!LostClaim(d, e)
             /\ I!O!Current(d, e) => PI!Current(d, e)
  BY Zenon DEF I!O!Current, PI!Current, I!O!Owns, PI!Owns, I!O!GivesUp, PI!GivesUp,
     I!O!Advance, PI!Advance, I!O!Released, PI!Released, I!O!Publish, PI!Publish,
     I!O!Retry, PI!Retry, I!O!RetryDelay, PI!RetryDelay, I!O!LostClaim, PI!LostClaim,
     I!O!Idle, PI!Idle
<1>3. ASSUME NEW d \in Dispatchers
      PROVE  /\ I!O!Claim(d) => PI!Claim(d)
             /\ I!O!StorageError(d) => PI!StorageError(d)
             /\ I!O!Crash(d) => PI!Crash(d)
  BY <1>1 DEF I!O!Claim, PI!Claim, I!O!StorageError, PI!StorageError, I!O!Crash,
     PI!Crash, I!O!Idle, PI!Idle, I!O!Fault, PI!Fault
<1>4. I!O!Tick => PI!Tick
  BY Zenon DEF I!O!Tick, PI!Tick, I!O!Overdue, PI!Overdue, I!O!Owns, PI!Owns
<1>5. \A e \in Batches : I!O!Enqueue(e) => PI!Enqueue(e)
  BY DEF I!O!Enqueue, PI!Enqueue
<1>6. QED
  BY <1>2, <1>3, <1>4, <1>5

\* Batches that are accepted and not over.
OpenBatches == {b \in Batches : batch[b] \in I!Active}

\* What the outbox owes to batches and keeps, and what a batch leaves it.
BatchesEntrusted ==
  kind = "ingestion_batch" =>
    PI!IInv /\ PI!Entrusted(outbox, disp, OpenBatches, faults.broken > 0)

\* The handler of batches leaves a batch over when it ends for good.
LEMMA BatchHandlerEnds ==
  ASSUME IngestionTypes, PI!TypeOK,
         NEW d \in Dispatchers, NEW e \in Batches, I!Handler(d, e) \/ I!StorageFault(d, e)
  PROVE  /\ PI!HandlerEnds(d, e, OpenBatches', faults'.broken > 0)
         /\ OpenBatches' \subseteq OpenBatches
         /\ faults.broken > 0 => faults'.broken > 0
<1> DEFINE Goal == /\ PI!HandlerEnds(d, e, OpenBatches', faults'.broken > 0)
                   /\ OpenBatches' \subseteq OpenBatches
                   /\ faults.broken > 0 => faults'.broken > 0
<1>1. /\ PI!Current(d, e) /\ disp[d].outcome = "running" /\ outbox' = outbox
      /\ I!Handler(d, e) => faults' = faults
      /\ I!StorageFault(d, e) => PI!Fault
  BY SameForBatches
  DEF I!Handler, I!Begin, I!BeginOver, I!ApplyChunk, I!Complete, I!ApplyRefused,
      I!Fail, I!StorageFault, I!Handling, I!outboxVars, I!O!Fault, PI!Fault
<1>2. /\ faults.broken > 0 => faults'.broken > 0
      /\ I!StorageFault(d, e) => faults'.broken > 0
  BY <1>1, OutboxesFit, PI!BrokenStays
<1>3. ASSUME NEW value, batch' = [batch EXCEPT ![e] = value],
             value \in I!Active => batch[e] \in I!Active
      PROVE  /\ OpenBatches' \subseteq OpenBatches
             /\ e \in OpenBatches' => value \in I!Active
  BY <1>3 DEF OpenBatches, IngestionTypes
<1>4. ASSUME batch' = batch PROVE OpenBatches' = OpenBatches
  BY <1>4 DEF OpenBatches
<1>5. ASSUME disp' = disp, OpenBatches' \subseteq OpenBatches PROVE Goal
  <2>1. ~PI!Concludes([disp[d] EXCEPT !.outcome = "running"], e)
    BY DEF PI!Concludes, PI!TypeOK, PI!Dispatcher
  <2>2. QED
    BY <1>1, <1>2, <1>5, <2>1 DEF PI!Outcome, PI!HandlerEnds
<1>6. ASSUME NEW result \in {"ok", "retryable", "fatal"},
             disp' = [disp EXCEPT ![d].outcome = result],
             OpenBatches' \subseteq OpenBatches,
             \/ e \notin OpenBatches'
             \/ faults'.broken > 0
             \/ result = "retryable" /\ ~(disp[d].attempt[e] - 1 >= IngestionRetries)
      PROVE  Goal
  <2>1. /\ [disp[d] EXCEPT !.outcome = result].outcome = result
        /\ [disp[d] EXCEPT !.outcome = result].attempt = disp[d].attempt
    BY DEF PI!TypeOK, PI!Dispatcher
  <2>2. PI!Concludes([disp[d] EXCEPT !.outcome = result], e) =>
          e \notin OpenBatches' \/ faults'.broken > 0
    BY <1>6, <2>1 DEF PI!Concludes
  <2>3. QED
    BY <1>1, <1>2, <1>6, <2>2 DEF PI!Outcome, PI!HandlerEnds
<1> HIDE DEF Goal
<1>7. ASSUME I!Begin(d, e) PROVE Goal
  BY <1>3, <1>5, <1>7 DEF I!Begin, I!Active, I!outboxVars
<1>8. ASSUME I!BeginOver(d, e) PROVE Goal
  <2>1. OpenBatches' = OpenBatches /\ e \notin OpenBatches
    BY <1>4, <1>8 DEF I!BeginOver, OpenBatches, I!Active, I!Terminal
  <2>2. disp' = disp \/ disp' = [disp EXCEPT ![d].outcome = "ok"]
    BY <1>8 DEF I!BeginOver, I!Leaves
  <2>3. QED
    BY <1>5, <1>6, <2>1, <2>2
<1>9. ASSUME I!ApplyChunk(d, e) \/ I!ApplyRefused(d, e) PROVE Goal
  BY <1>4, <1>5, <1>9 DEF I!ApplyChunk, I!ApplyRefused, I!outboxVars
<1>10. ASSUME I!Complete(d, e) PROVE Goal
  <2>1. batch' = [batch EXCEPT ![e] = "succeeded"] /\ "succeeded" \notin I!Active
    BY <1>10 DEF I!Complete, I!Active
  <2>2. OpenBatches' \subseteq OpenBatches /\ e \notin OpenBatches'
    BY <1>3, <2>1
  <2>3. QED
    BY <1>6, <1>10, <2>2 DEF I!Complete, I!Leaves
<1>11. ASSUME I!Fail(d, e) PROVE Goal
  <2> DEFINE value == IF batch[e] \in I!Active THEN I!FailureStatus(d, e) ELSE batch[e]
             result == IF I!Retries(d, e) THEN "retryable" ELSE "fatal"
  <2>1. /\ batch' = [batch EXCEPT ![e] = value]
        /\ disp' = [disp EXCEPT ![d].outcome = result]
    BY <1>11 DEF I!Fail, I!Leaves, IngestionTypes
  <2>2. value \in I!Active => batch[e] \in I!Active /\ I!Retries(d, e)
    BY DEF I!FailureStatus, I!Active
  <2>3. I!Retries(d, e) => ~(disp[d].attempt[e] - 1 >= IngestionRetries)
    BY WorkerAssumption DEF I!Retries, PI!TypeOK, PI!Dispatcher
  <2>4. result \in {"ok", "retryable", "fatal"}
    OBVIOUS
  <2>5. OpenBatches' \subseteq OpenBatches /\ (e \in OpenBatches' => value \in I!Active)
    BY <1>3, <2>1, <2>2
  <2>6. \/ e \notin OpenBatches'
        \/ result = "retryable" /\ ~(disp[d].attempt[e] - 1 >= IngestionRetries)
    BY <2>2, <2>3, <2>5
  <2> HIDE DEF value, result
  <2>7. QED
    BY <1>6, <2>1, <2>4, <2>5, <2>6
<1>12. ASSUME I!StorageFault(d, e) PROVE Goal
  <2>1. disp' = disp \/ disp' = [disp EXCEPT ![d].outcome = "retryable"]
    BY <1>12 DEF I!StorageFault, I!Leaves
  <2>2. OpenBatches' = OpenBatches
    BY <1>4, <1>12 DEF I!StorageFault
  <2>3. QED
    BY <1>2, <1>5, <1>6, <1>12, <2>1, <2>2
<1>13. QED
  BY <1>7, <1>8, <1>9, <1>10, <1>11, <1>12 DEF I!Handler, Goal

\* Every step of a worker that applies batches.
LEMMA BatchTasks ==
  ASSUME IngestionTypes, PI!TypeOK, I!Next
  PROVE  PI!TaskStep(OpenBatches, faults.broken > 0, OpenBatches', faults'.broken > 0)
<1> DEFINE Goal ==
      PI!TaskStep(OpenBatches, faults.broken > 0, OpenBatches', faults'.broken > 0)
<1>1. ASSUME batch' = batch, PI!LoopStep \/ UNCHANGED PI!vars PROVE Goal
  <2>1. faults.broken > 0 => faults'.broken > 0
    BY <1>1, OutboxesFit, PI!BrokenStays DEF PI!vars
  <2>2. QED
    BY <1>1, <2>1 DEF OpenBatches, PI!TaskStep
<1>2. ASSUME NEW e \in Batches, I!StageBatch(e) PROVE Goal
  <2>1. PI!Enqueue(e) /\ batch' = [batch EXCEPT ![e] = "queued"]
    BY <1>2, SameForBatches DEF I!StageBatch
  <2>2. OpenBatches' \subseteq OpenBatches \union {e}
    BY <2>1 DEF OpenBatches, IngestionTypes
  <2>3. faults.broken > 0 => faults'.broken > 0
    BY <2>1, OutboxesFit, PI!BrokenStays
  <2>4. QED
    BY <2>1, <2>2, <2>3 DEF PI!TaskStep
<1>3. ASSUME I!Revoke PROVE Goal
  BY <1>1, <1>3 DEF I!Revoke, I!outboxVars, PI!vars
<1>4. ASSUME NEW d \in Dispatchers, I!Dispatch(d) \/ I!Settle(d) \/ I!Crash(d) PROVE Goal
  <2>1. batch' = batch
    BY <1>4 DEF I!Dispatch, I!Settle, I!Crash, I!local
  <2>2. PI!LoopStep
    BY <1>4, SameForBatches DEF I!Dispatch, I!Settle, I!Crash, PI!LoopStep
  <2>3. QED
    BY <1>1, <2>1, <2>2
<1>5. ASSUME I!Tick PROVE Goal
  BY <1>1, <1>5, SameForBatches DEF I!Tick, I!local, PI!LoopStep
<1>6. ASSUME NEW d \in Dispatchers, NEW e \in Batches,
             I!Handler(d, e) \/ I!StorageFault(d, e)
      PROVE  Goal
  BY <1>6, BatchHandlerEnds DEF PI!TaskStep
<1> HIDE DEF Goal
<1>7. Goal
  BY <1>2, <1>3, <1>4, <1>5, <1>6 DEF I!Next, I!Work
<1>8. QED
  BY <1>7 DEF Goal

\* The outbox of imports is the one of OutboxProofs.
LEMMA SameForFiles ==
  /\ \A d \in Dispatchers :
       /\ C!O!Claim(d) => PC!Claim(d)
       /\ C!O!StorageError(d) => PC!StorageError(d)
       /\ C!O!Crash(d) => PC!Crash(d)
       /\ \A e \in Files :
            /\ C!O!Publish(d, e) => PC!Publish(d, e)
            /\ C!O!Retry(d, e) => PC!Retry(d, e)
            /\ C!O!LostClaim(d, e) => PC!LostClaim(d, e)
            /\ C!O!Current(d, e) => PC!Current(d, e)
  /\ \A e \in Files : C!O!Enqueue(e) => PC!Enqueue(e)
  /\ C!O!Tick => PC!Tick
<1>1. C!O!Candidates = PC!Candidates
  <2>1. \A X : C!O!Cardinality(X) = PC!Cardinality(X)
    BY DEF C!O!Cardinality, PC!Cardinality
  <2>2. QED
    BY <2>1 DEF C!O!Candidates, PC!Candidates, C!O!Eligible, PC!Eligible
<1>2. ASSUME NEW d \in Dispatchers, NEW e \in Files
      PROVE  /\ C!O!Publish(d, e) => PC!Publish(d, e)
             /\ C!O!Retry(d, e) => PC!Retry(d, e)
             /\ C!O!LostClaim(d, e) => PC!LostClaim(d, e)
             /\ C!O!Current(d, e) => PC!Current(d, e)
  BY Zenon DEF C!O!Current, PC!Current, C!O!Owns, PC!Owns, C!O!GivesUp, PC!GivesUp,
     C!O!Advance, PC!Advance, C!O!Released, PC!Released, C!O!Publish, PC!Publish,
     C!O!Retry, PC!Retry, C!O!RetryDelay, PC!RetryDelay, C!O!LostClaim, PC!LostClaim,
     C!O!Idle, PC!Idle
<1>3. ASSUME NEW d \in Dispatchers
      PROVE  /\ C!O!Claim(d) => PC!Claim(d)
             /\ C!O!StorageError(d) => PC!StorageError(d)
             /\ C!O!Crash(d) => PC!Crash(d)
  BY <1>1 DEF C!O!Claim, PC!Claim, C!O!StorageError, PC!StorageError, C!O!Crash,
     PC!Crash, C!O!Idle, PC!Idle, C!O!Fault, PC!Fault
<1>4. C!O!Tick => PC!Tick
  BY Zenon DEF C!O!Tick, PC!Tick, C!O!Overdue, PC!Overdue, C!O!Owns, PC!Owns
<1>5. \A e \in Files : C!O!Enqueue(e) => PC!Enqueue(e)
  BY DEF C!O!Enqueue, PC!Enqueue
<1>6. QED
  BY <1>2, <1>3, <1>4, <1>5

\* Imports that are queued or running.
OpenImports == {f \in Files : job[f].status \in C!Active}

\* What the outbox owes to imports and keeps, and what an import leaves it.
ImportsEntrusted ==
  kind = "csv_import" =>
    PC!IInv /\ PC!Entrusted(outbox, disp, OpenImports, faults.broken > 0)

\* The handler of imports leaves an import over when it ends for good.
LEMMA ImportHandlerEnds ==
  ASSUME ImportTypes, PC!TypeOK,
         NEW d \in Dispatchers, NEW e \in Files, C!Handler(d, e) \/ C!StorageFault(d, e)
  PROVE  /\ PC!HandlerEnds(d, e, OpenImports', faults'.broken > 0)
         /\ OpenImports' \subseteq OpenImports
         /\ faults.broken > 0 => faults'.broken > 0
<1> DEFINE Goal == /\ PC!HandlerEnds(d, e, OpenImports', faults'.broken > 0)
                   /\ OpenImports' \subseteq OpenImports
                   /\ faults.broken > 0 => faults'.broken > 0
<1>1. /\ PC!Current(d, e) /\ disp[d].outcome = "running" /\ outbox' = outbox
      /\ C!Handler(d, e) => faults' = faults
      /\ C!StorageFault(d, e) => PC!Fault
  BY SameForFiles
  DEF C!Handler, C!Prepare, C!PrepareRefused, C!PrepareOver, C!ApplyRows, C!Complete,
      C!ApplyRefused, C!Fail, C!StorageFault, C!Handling, C!outboxVars, C!O!Fault, PC!Fault
<1>2. /\ faults.broken > 0 => faults'.broken > 0
      /\ C!StorageFault(d, e) => faults'.broken > 0
  BY <1>1, OutboxesFit, PC!BrokenStays
<1>3. ASSUME NEW value, \A f \in Files \ {e} : job'[f] = job[f], job'[e].status = value,
             value \in C!Active => job[e].status \in C!Active
      PROVE  /\ OpenImports' \subseteq OpenImports
             /\ e \in OpenImports' => value \in C!Active
  BY <1>3 DEF OpenImports
<1>4. ASSUME job' = job PROVE OpenImports' = OpenImports
  BY <1>4 DEF OpenImports
<1>5. ASSUME disp' = disp, OpenImports' \subseteq OpenImports PROVE Goal
  <2>1. ~PC!Concludes([disp[d] EXCEPT !.outcome = "running"], e)
    BY DEF PC!Concludes, PC!TypeOK, PC!Dispatcher
  <2>2. QED
    BY <1>1, <1>2, <1>5, <2>1 DEF PC!Outcome, PC!HandlerEnds
<1>6. ASSUME NEW result \in {"ok", "retryable", "fatal"},
             disp' = [disp EXCEPT ![d].outcome = result],
             OpenImports' \subseteq OpenImports,
             \/ e \notin OpenImports'
             \/ faults'.broken > 0
             \/ result = "retryable" /\ ~(disp[d].attempt[e] - 1 >= ImportRetries)
      PROVE  Goal
  <2>1. /\ [disp[d] EXCEPT !.outcome = result].outcome = result
        /\ [disp[d] EXCEPT !.outcome = result].attempt = disp[d].attempt
    BY DEF PC!TypeOK, PC!Dispatcher
  <2>2. PC!Concludes([disp[d] EXCEPT !.outcome = result], e) =>
          e \notin OpenImports' \/ faults'.broken > 0
    BY <1>6, <2>1 DEF PC!Concludes
  <2>3. QED
    BY <1>1, <1>2, <1>6, <2>2 DEF PC!Outcome, PC!HandlerEnds
<1> HIDE DEF Goal
<1>7. ASSUME C!Prepare(d, e) PROVE Goal
  <2>1. /\ \A f \in Files \ {e} : job'[f] = job[f]
        /\ job'[e].status = "running" /\ job[e].status \in C!Active /\ disp' = disp
    BY <1>7 DEF C!Prepare, C!Prepared, C!MayPrepare, C!outboxVars, ImportTypes, JobType
  <2>2. QED
    BY <1>3, <1>5, <2>1
<1>8. ASSUME C!PrepareRefused(d, e) \/ C!ApplyRefused(d, e) PROVE Goal
  BY <1>4, <1>5, <1>8 DEF C!PrepareRefused, C!ApplyRefused, C!outboxVars, C!tables
<1>9. ASSUME C!PrepareOver(d, e) PROVE Goal
  <2>1. OpenImports' = OpenImports /\ e \notin OpenImports
    BY <1>4, <1>9 DEF C!PrepareOver, C!MayPrepare, C!tables, OpenImports
  <2>2. disp' = disp \/ disp' = [disp EXCEPT ![d].outcome = "ok"]
    BY <1>9 DEF C!PrepareOver, C!Leaves
  <2>3. QED
    BY <1>5, <1>6, <2>1, <2>2
<1>10. ASSUME C!ApplyRows(d, e) PROVE Goal
  <2>1. /\ \A f \in Files \ {e} : job'[f] = job[f]
        /\ job'[e].status = "running" /\ job[e].status = "running" /\ disp' = disp
    BY <1>10 DEF C!ApplyRows, C!MayApply, C!outboxVars, ImportTypes, JobType
  <2>2. QED
    BY <1>3, <1>5, <2>1
<1>11. ASSUME C!Complete(d, e) PROVE Goal
  <2>1. /\ \A f \in Files \ {e} : job'[f] = job[f]
        /\ job'[e].status = "succeeded" /\ "succeeded" \notin C!Active
    BY <1>11 DEF C!Complete, C!Active, ImportTypes, JobType
  <2>2. OpenImports' \subseteq OpenImports /\ e \notin OpenImports'
    BY <1>3, <2>1
  <2>3. QED
    BY <1>6, <1>11, <2>2 DEF C!Complete, C!Leaves
<1>12. ASSUME C!Fail(d, e) PROVE Goal
  <2> DEFINE value == IF job[e].status \notin C!Active THEN job[e].status
                      ELSE IF C!Retries(d, e) THEN "queued" ELSE "failed"
             result == IF C!Retries(d, e) THEN "retryable" ELSE "fatal"
  <2>1. /\ \A f \in Files \ {e} : job'[f] = job[f]
        /\ job'[e].status = value
        /\ disp' = [disp EXCEPT ![d].outcome = result]
    BY <1>12 DEF C!Fail, C!Leaves, ImportTypes, JobType
  <2>2. value \in C!Active => job[e].status \in C!Active /\ C!Retries(d, e)
    BY DEF C!Active
  <2>3. C!Retries(d, e) => ~(disp[d].attempt[e] - 1 >= ImportRetries)
    BY WorkerAssumption DEF C!Retries, PC!TypeOK, PC!Dispatcher
  <2>4. result \in {"ok", "retryable", "fatal"}
    OBVIOUS
  <2>5. OpenImports' \subseteq OpenImports /\ (e \in OpenImports' => value \in C!Active)
    BY <1>3, <2>1, <2>2
  <2>6. \/ e \notin OpenImports'
        \/ result = "retryable" /\ ~(disp[d].attempt[e] - 1 >= ImportRetries)
    BY <2>2, <2>3, <2>5
  <2> HIDE DEF value, result
  <2>7. QED
    BY <1>6, <2>1, <2>4, <2>5, <2>6
<1>13. ASSUME C!StorageFault(d, e) PROVE Goal
  <2>1. disp' = disp \/ disp' = [disp EXCEPT ![d].outcome = "retryable"]
    BY <1>13 DEF C!StorageFault, C!Leaves
  <2>2. OpenImports' = OpenImports
    BY <1>4, <1>13 DEF C!StorageFault, C!tables
  <2>3. QED
    BY <1>2, <1>5, <1>6, <1>13, <2>1, <2>2
<1>14. QED
  BY <1>7, <1>8, <1>9, <1>10, <1>11, <1>12, <1>13 DEF C!Handler, Goal

\* Every step of a worker that applies imports, or of the upload route.
LEMMA ImportTasks ==
  ASSUME ImportTypes, PC!TypeOK, C!Next
  PROVE  PC!TaskStep(OpenImports, faults.broken > 0, OpenImports', faults'.broken > 0)
<1> DEFINE Goal ==
      PC!TaskStep(OpenImports, faults.broken > 0, OpenImports', faults'.broken > 0)
<1>1. ASSUME OpenImports' \subseteq OpenImports, PC!LoopStep \/ UNCHANGED PC!vars PROVE Goal
  <2>1. faults.broken > 0 => faults'.broken > 0
    BY <1>1, OutboxesFit, PC!BrokenStays DEF PC!vars
  <2>2. QED
    BY <1>1, <2>1 DEF PC!TaskStep
<1>2. ASSUME NEW e \in Files, C!QueueImport(e) PROVE Goal
  <2>1. PC!Enqueue(e) /\ job' = [job EXCEPT ![e].status = "queued"]
    BY <1>2, SameForFiles DEF C!QueueImport
  <2>2. OpenImports' \subseteq OpenImports \union {e}
    BY <2>1 DEF OpenImports, ImportTypes
  <2>3. faults.broken > 0 => faults'.broken > 0
    BY <2>1, OutboxesFit, PC!BrokenStays
  <2>4. QED
    BY <2>1, <2>2, <2>3 DEF PC!TaskStep
<1>3. ASSUME NEW e \in Files, NEW value \in {"staging", "failed"},
             \A f \in Files \ {e} : job'[f] = job[f], job'[e].status = value,
             UNCHANGED C!outboxVars
      PROVE  Goal
  <2>1. OpenImports' \subseteq OpenImports
    BY <1>3 DEF OpenImports, C!Active
  <2>2. QED
    BY <1>1, <1>3, <2>1 DEF C!outboxVars, PC!vars
<1>4. ASSUME NEW e \in Files,
             \/ \E n \in 1 .. MaxRows : C!CreateJob(e, n)
             \/ C!StageRow(e)
             \/ C!FailUpload(e)
      PROVE  Goal
  <2>1. /\ job'[e].status \in {"staging", "failed"} /\ UNCHANGED C!outboxVars
        /\ \A f \in Files \ {e} : job'[f] = job[f]
    BY <1>4 DEF C!CreateJob, C!StageRow, C!FailUpload, ImportTypes, JobType
  <2>2. QED
    BY <1>3, <2>1
<1>5. ASSUME NEW d \in Dispatchers, C!Dispatch(d) \/ C!Settle(d) \/ C!Crash(d) PROVE Goal
  <2>1. job' = job
    BY <1>5 DEF C!Dispatch, C!Settle, C!Crash, C!local, C!tables
  <2>2. PC!LoopStep
    BY <1>5, SameForFiles DEF C!Dispatch, C!Settle, C!Crash, PC!LoopStep
  <2>3. QED
    BY <1>1, <2>1, <2>2 DEF OpenImports
<1>6. ASSUME C!Tick PROVE Goal
  BY <1>1, <1>6, SameForFiles DEF C!Tick, C!local, C!tables, PC!LoopStep, OpenImports
<1>7. ASSUME NEW d \in Dispatchers, NEW e \in Files,
             C!Handler(d, e) \/ C!StorageFault(d, e)
      PROVE  Goal
  BY <1>7, ImportHandlerEnds DEF PC!TaskStep
<1> HIDE DEF Goal
<1>8. Goal
  BY <1>2, <1>4, <1>5, <1>6, <1>7 DEF C!Next, C!Work, C!Upload
<1>9. QED
  BY <1>8 DEF Goal

\* The outbox of source runs is the one of OutboxProofs.
LEMMA SameForRuns ==
  /\ \A d \in Dispatchers :
       /\ S!O!Claim(d) => PS!Claim(d)
       /\ S!O!StorageError(d) => PS!StorageError(d)
       /\ S!O!Crash(d) => PS!Crash(d)
       /\ \A e \in Runs :
            /\ S!O!Publish(d, e) => PS!Publish(d, e)
            /\ S!O!Retry(d, e) => PS!Retry(d, e)
            /\ S!O!LostClaim(d, e) => PS!LostClaim(d, e)
            /\ S!O!Current(d, e) => PS!Current(d, e)
  /\ \A e \in Runs : S!O!Enqueue(e) => PS!Enqueue(e)
  /\ S!O!Tick => PS!Tick
<1>1. S!O!Candidates = PS!Candidates
  <2>1. \A X : S!O!Cardinality(X) = PS!Cardinality(X)
    BY DEF S!O!Cardinality, PS!Cardinality
  <2>2. QED
    BY <2>1 DEF S!O!Candidates, PS!Candidates, S!O!Eligible, PS!Eligible
<1>2. ASSUME NEW d \in Dispatchers, NEW e \in Runs
      PROVE  /\ S!O!Publish(d, e) => PS!Publish(d, e)
             /\ S!O!Retry(d, e) => PS!Retry(d, e)
             /\ S!O!LostClaim(d, e) => PS!LostClaim(d, e)
             /\ S!O!Current(d, e) => PS!Current(d, e)
  BY Zenon DEF S!O!Current, PS!Current, S!O!Owns, PS!Owns, S!O!GivesUp, PS!GivesUp,
     S!O!Advance, PS!Advance, S!O!Released, PS!Released, S!O!Publish, PS!Publish,
     S!O!Retry, PS!Retry, S!O!RetryDelay, PS!RetryDelay, S!O!LostClaim, PS!LostClaim,
     S!O!Idle, PS!Idle
<1>3. ASSUME NEW d \in Dispatchers
      PROVE  /\ S!O!Claim(d) => PS!Claim(d)
             /\ S!O!StorageError(d) => PS!StorageError(d)
             /\ S!O!Crash(d) => PS!Crash(d)
  BY <1>1 DEF S!O!Claim, PS!Claim, S!O!StorageError, PS!StorageError, S!O!Crash,
     PS!Crash, S!O!Idle, PS!Idle, S!O!Fault, PS!Fault
<1>4. S!O!Tick => PS!Tick
  BY Zenon DEF S!O!Tick, PS!Tick, S!O!Overdue, PS!Overdue, S!O!Owns, PS!Owns
<1>5. \A e \in Runs : S!O!Enqueue(e) => PS!Enqueue(e)
  BY DEF S!O!Enqueue, PS!Enqueue
<1>6. QED
  BY <1>2, <1>3, <1>4, <1>5

\* Source runs that are queued or running.
OpenRuns == {r \in Runs : run[r].status \in S!Active}

\* What the outbox owes to source runs and keeps, and what a run leaves it.
RunsEntrusted ==
  kind = "source_run" =>
    PS!IInv /\ PS!Entrusted(outbox, disp, OpenRuns, faults.broken > 0)

\* The handler of source runs leaves a run over when it ends for good.
LEMMA RunHandlerEnds ==
  ASSUME SourceTypes, PS!TypeOK,
         NEW d \in Dispatchers, NEW e \in Runs, S!Handler(d, e) \/ S!StorageFault(d, e)
  PROVE  /\ PS!HandlerEnds(d, e, OpenRuns', faults'.broken > 0)
         /\ OpenRuns' \subseteq OpenRuns
         /\ faults.broken > 0 => faults'.broken > 0
<1> DEFINE Goal == /\ PS!HandlerEnds(d, e, OpenRuns', faults'.broken > 0)
                   /\ OpenRuns' \subseteq OpenRuns
                   /\ faults.broken > 0 => faults'.broken > 0
<1>1. /\ PS!Current(d, e) /\ disp[d].outcome = "running" /\ outbox' = outbox
      /\ S!Handler(d, e) => faults' = faults
      /\ S!StorageFault(d, e) => PS!Fault
  BY SameForRuns
  DEF S!Handler, S!Begin, S!BeginOver, S!Request, S!RequestFails, S!ApplyPage,
      S!ApplyNothing, S!ApplyRefused, S!Fail, S!StorageFault, S!Handling,
      S!outboxVars, S!O!Fault, PS!Fault
<1>2. /\ faults.broken > 0 => faults'.broken > 0
      /\ S!StorageFault(d, e) => faults'.broken > 0
  BY <1>1, OutboxesFit, PS!BrokenStays
<1>3. ASSUME NEW value, \A r \in Runs \ {e} : run'[r] = run[r], run'[e].status = value,
             value \in S!Active => run[e].status \in S!Active
      PROVE  /\ OpenRuns' \subseteq OpenRuns
             /\ e \in OpenRuns' => value \in S!Active
  BY <1>3 DEF OpenRuns
<1>4. ASSUME run' = run PROVE OpenRuns' = OpenRuns
  BY <1>4 DEF OpenRuns
<1>5. ASSUME disp' = disp, OpenRuns' \subseteq OpenRuns PROVE Goal
  <2>1. ~PS!Concludes([disp[d] EXCEPT !.outcome = "running"], e)
    BY DEF PS!Concludes, PS!TypeOK, PS!Dispatcher
  <2>2. QED
    BY <1>1, <1>2, <1>5, <2>1 DEF PS!Outcome, PS!HandlerEnds
<1>6. ASSUME NEW result \in {"ok", "retryable", "fatal"},
             disp' = [disp EXCEPT ![d].outcome = result],
             OpenRuns' \subseteq OpenRuns,
             \/ e \notin OpenRuns'
             \/ faults'.broken > 0
             \/ result = "retryable" /\ ~(disp[d].attempt[e] - 1 >= SourceRetries)
      PROVE  Goal
  <2>1. /\ [disp[d] EXCEPT !.outcome = result].outcome = result
        /\ [disp[d] EXCEPT !.outcome = result].attempt = disp[d].attempt
    BY DEF PS!TypeOK, PS!Dispatcher
  <2>2. PS!Concludes([disp[d] EXCEPT !.outcome = result], e) =>
          e \notin OpenRuns' \/ faults'.broken > 0
    BY <1>6, <2>1 DEF PS!Concludes
  <2>3. QED
    BY <1>1, <1>2, <1>6, <2>2 DEF PS!Outcome, PS!HandlerEnds
<1> HIDE DEF Goal
<1>7. ASSUME S!Begin(d, e) PROVE Goal
  <2>1. /\ \A r \in Runs \ {e} : run'[r] = run[r]
        /\ run'[e].status = "running" /\ run[e].status \in S!Active /\ disp' = disp
    BY <1>7 DEF S!Begin, S!MayBegin, S!outboxVars, SourceTypes
  <2>2. QED
    BY <1>3, <1>5, <2>1
<1>8. ASSUME \/ S!Request(d, e) \/ S!ApplyRefused(d, e)
             \/ \E failure \in {"retryable", "fatal"} : S!RequestFails(d, e, failure)
      PROVE  Goal
  BY <1>4, <1>5, <1>8 DEF S!Request, S!ApplyRefused, S!RequestFails, S!outboxVars
<1>9. ASSUME S!BeginOver(d, e) PROVE Goal
  <2>1. OpenRuns' = OpenRuns /\ e \notin OpenRuns
    BY <1>4, <1>9 DEF S!BeginOver, S!MayBegin, OpenRuns
  <2>2. \/ disp' = [disp EXCEPT ![d].outcome = "retryable"]
        \/ disp' = [disp EXCEPT ![d].outcome = "ok"]
    BY <1>9 DEF S!BeginOver, S!Leaves
  <2>3. QED
    BY <1>6, <2>1, <2>2
<1>10. ASSUME S!ApplyPage(d, e) PROVE Goal
  <2>1. /\ \A r \in Runs \ {e} : run'[r] = run[r]
        /\ run'[e].status = IF page[d].more THEN "running" ELSE "succeeded"
        /\ run[e].status = "running"
    BY <1>10 DEF S!ApplyPage, S!MayApply, S!Checkpoint, SourceTypes
  <2>2. "succeeded" \notin S!Active /\ "running" \in S!Active
    BY DEF S!Active
  <2>3. OpenRuns' \subseteq OpenRuns /\ (e \in OpenRuns' => page[d].more)
    BY <1>3, <2>1, <2>2
  <2>4. IF page[d].more THEN disp' = disp ELSE disp' = [disp EXCEPT ![d].outcome = "ok"]
    BY <1>10 DEF S!ApplyPage, S!Leaves
  <2>5. QED
    BY <1>5, <1>6, <2>3, <2>4
<1>11. ASSUME S!ApplyNothing(d, e) PROVE Goal
  <2>1. OpenRuns' = OpenRuns
    BY <1>4, <1>11 DEF S!ApplyNothing
  <2>2. run[e].status = "succeeded" => e \notin OpenRuns
    BY DEF OpenRuns, S!Active
  <2>3. IF run[e].status = "succeeded"
          THEN disp' = [disp EXCEPT ![d].outcome = "ok"]
          ELSE disp' = disp
    BY <1>11 DEF S!ApplyNothing, S!Leaves
  <2>4. QED
    BY <1>5, <1>6, <2>1, <2>2, <2>3
<1>12. ASSUME S!Fail(d, e) PROVE Goal
  <2> DEFINE value == IF run[e].status \notin S!Active THEN run[e].status
                      ELSE IF S!Retries(d, e) THEN "queued" ELSE "failed"
  <2>1. /\ \A r \in Runs \ {e} : run'[r] = run[r]
        /\ run'[e].status = value
        /\ disp' = [disp EXCEPT ![d].outcome = stage[d]]
        /\ stage[d] \in {"retryable", "fatal"}
    BY <1>12 DEF S!Fail, S!Leaves, S!Handling, SourceTypes
  <2>2. value \in S!Active => run[e].status \in S!Active /\ S!Retries(d, e)
    BY DEF S!Active
  <2>3. S!Retries(d, e) =>
          stage[d] = "retryable" /\ ~(disp[d].attempt[e] - 1 >= SourceRetries)
    BY WorkerAssumption DEF S!Retries, PS!TypeOK, PS!Dispatcher
  <2>4. OpenRuns' \subseteq OpenRuns /\ (e \in OpenRuns' => value \in S!Active)
    BY <1>3, <2>1, <2>2
  <2>5. \/ e \notin OpenRuns'
        \/ stage[d] = "retryable" /\ ~(disp[d].attempt[e] - 1 >= SourceRetries)
    BY <2>2, <2>3, <2>4
  <2> HIDE DEF value
  <2>6. QED
    BY <1>6, <2>1, <2>4, <2>5
<1>13. ASSUME S!StorageFault(d, e) PROVE Goal
  <2>1. disp' = disp \/ disp' = [disp EXCEPT ![d].outcome = "retryable"]
    BY <1>13 DEF S!StorageFault, S!Leaves
  <2>2. OpenRuns' = OpenRuns
    BY <1>4, <1>13 DEF S!StorageFault
  <2>3. QED
    BY <1>2, <1>5, <1>6, <1>13, <2>1, <2>2
<1>14. QED
  BY <1>7, <1>8, <1>9, <1>10, <1>11, <1>12, <1>13 DEF S!Handler, Goal

\* Every step of a worker that executes source runs, or of the provider.
LEMMA RunTasks ==
  ASSUME SourceTypes, PS!TypeOK, S!Next
  PROVE  PS!TaskStep(OpenRuns, faults.broken > 0, OpenRuns', faults'.broken > 0)
<1> DEFINE Goal ==
      PS!TaskStep(OpenRuns, faults.broken > 0, OpenRuns', faults'.broken > 0)
<1>1. ASSUME run' = run, PS!LoopStep \/ UNCHANGED PS!vars PROVE Goal
  <2>1. faults.broken > 0 => faults'.broken > 0
    BY <1>1, OutboxesFit, PS!BrokenStays DEF PS!vars
  <2>2. QED
    BY <1>1, <2>1 DEF OpenRuns, PS!TaskStep
<1>2. ASSUME NEW e \in Runs, S!Queue(e) PROVE Goal
  <2>1. PS!Enqueue(e) /\ run' = [run EXCEPT ![e].status = "queued"]
    BY <1>2, SameForRuns DEF S!Queue
  <2>2. OpenRuns' \subseteq OpenRuns \union {e}
    BY <2>1 DEF OpenRuns, SourceTypes
  <2>3. faults.broken > 0 => faults'.broken > 0
    BY <2>1, OutboxesFit, PS!BrokenStays
  <2>4. QED
    BY <2>1, <2>2, <2>3 DEF PS!TaskStep
<1>3. ASSUME \E k \in Keys : S!RemoteChanges(k) PROVE Goal
  BY <1>1, <1>3 DEF S!RemoteChanges, S!outboxVars, PS!vars
<1>4. ASSUME NEW d \in Dispatchers, S!Dispatch(d) \/ S!Settle(d) \/ S!Crash(d) PROVE Goal
  <2>1. run' = run
    BY <1>4 DEF S!Dispatch, S!Settle, S!Crash, S!local
  <2>2. PS!LoopStep
    BY <1>4, SameForRuns DEF S!Dispatch, S!Settle, S!Crash, PS!LoopStep
  <2>3. QED
    BY <1>1, <2>1, <2>2
<1>5. ASSUME S!Tick PROVE Goal
  BY <1>1, <1>5, SameForRuns DEF S!Tick, S!local, PS!LoopStep
<1>6. ASSUME NEW d \in Dispatchers, NEW e \in Runs,
             S!Handler(d, e) \/ S!StorageFault(d, e)
      PROVE  Goal
  BY <1>6, RunHandlerEnds DEF PS!TaskStep
<1> HIDE DEF Goal
<1>7. Goal
  BY <1>2, <1>3, <1>4, <1>5, <1>6 DEF S!Next, S!Work
<1>8. QED
  BY <1>7 DEF Goal

\* What holds of the tasks of a worker, whatever their kind.
TasksIInv ==
  /\ kind \in Kinds
  /\ DeliveryIInv /\ IngestionIInv /\ ImportIInv /\ SourceIInv
  /\ DeliveriesEntrusted /\ BatchesEntrusted /\ ImportsEntrusted /\ RunsEntrusted

\* It holds of a worker that has no task yet.
LEMMA TasksBegin ==
  ASSUME Init PROVE TasksIInv
<1> USE OutboxesFit
<1>1. kind \in Kinds /\ DeliveryIInv /\ IngestionIInv /\ ImportIInv /\ SourceIInv
  BY DeliveriesBegin, BatchesBegin, ImportsBegin, RunsBegin DEF Init
<1>2. /\ delivery = [e \in Deliveries |-> "absent"] /\ errors = 0
      /\ batch = [b \in Batches |-> "absent"]
      /\ \A f \in Files : job[f].status = "absent"
      /\ \A r \in Runs : run[r].status = "absent"
  BY DEF Init, D!DeliveryInit, I!IngestionInit, C!ImportInit, S!SourceInit
<1>3. OpenDeliveries = {} /\ OpenBatches = {} /\ OpenImports = {} /\ OpenRuns = {}
  BY <1>2
  DEF OpenDeliveries, OpenBatches, OpenImports, OpenRuns,
      D!Active, I!Active, C!Active, S!Active
<1>4. DeliveriesEntrusted
  <2>1. kind = "webhook_delivery" => PD!Init
    BY DEF Init, D!O!Init, PD!Init, D!O!Idle, PD!Idle
  <2>2. QED
    BY <1>2, <1>3, <2>1, PD!TasksBegin DEF DeliveriesEntrusted
<1>5. BatchesEntrusted
  <2>1. kind = "ingestion_batch" => PI!Init
    BY DEF Init, I!O!Init, PI!Init, I!O!Idle, PI!Idle
  <2>2. QED
    BY <1>3, <2>1, PI!TasksBegin DEF BatchesEntrusted
<1>6. ImportsEntrusted
  <2>1. kind = "csv_import" => PC!Init
    BY DEF Init, C!O!Init, PC!Init, C!O!Idle, PC!Idle
  <2>2. QED
    BY <1>3, <2>1, PC!TasksBegin DEF ImportsEntrusted
<1>7. RunsEntrusted
  <2>1. kind = "source_run" => PS!Init
    BY DEF Init, S!O!Init, PS!Init, S!O!Idle, PS!Idle
  <2>2. QED
    BY <1>3, <2>1, PS!TasksBegin DEF RunsEntrusted
<1>8. QED
  BY <1>1, <1>4, <1>5, <1>6, <1>7 DEF TasksIInv

\* A step leaves the tasks of its kind to their events, and has none of another.
LEMMA TasksStep ==
  ASSUME TasksIInv, [Next]_vars
  PROVE  kind' = kind /\ DeliveriesEntrusted' /\ BatchesEntrusted'
                      /\ ImportsEntrusted' /\ RunsEntrusted'
<1> USE OutboxesFit
<1>1. /\ kind' = kind
      /\ kind = "webhook_delivery" => D!Next \/ UNCHANGED vars
      /\ kind = "ingestion_batch" => I!Next \/ UNCHANGED vars
      /\ kind = "csv_import" => C!Next \/ UNCHANGED vars
      /\ kind = "source_run" => S!Next \/ UNCHANGED vars
  BY DEF Next, Webhook, Batch, Import, Source, vars
<1>2. ASSUME kind = "webhook_delivery" PROVE DeliveriesEntrusted'
  <2>1. /\ DeliveryIInv /\ PD!IInv /\ PD!TypeOK /\ errors \in Nat
        /\ PD!Entrusted(outbox, disp, OpenDeliveries, errors > 0)
    BY <1>2 DEF TasksIInv, DeliveriesEntrusted, PD!IInv
  <2>2. /\ errors' \in Nat
        /\ PD!TaskStep(OpenDeliveries, errors > 0, OpenDeliveries', errors' > 0)
    <3>1. CASE D!Next
      BY <1>2, <2>1, <3>1, DeliveryTasks
    <3>2. CASE UNCHANGED vars
      BY <2>1, <3>2 DEF vars, deliveryVars, OpenDeliveries, PD!TaskStep, PD!vars
    <3>3. QED
      BY <1>1, <1>2, <3>1, <3>2
  <2>3. PD!IInv' /\ PD!Entrusted(outbox', disp', OpenDeliveries', errors' > 0)
    BY <2>1, <2>2, PD!TasksKept
  <2>4. QED
    BY <2>2, <2>3 DEF DeliveriesEntrusted, PD!Entrusted
<1>3. ASSUME kind = "ingestion_batch" PROVE BatchesEntrusted'
  <2>1. /\ IngestionTypes /\ PI!IInv /\ PI!TypeOK
        /\ PI!Entrusted(outbox, disp, OpenBatches, faults.broken > 0)
    BY <1>3 DEF TasksIInv, IngestionIInv, BatchesEntrusted, PI!IInv
  <2>2. PI!TaskStep(OpenBatches, faults.broken > 0, OpenBatches', faults'.broken > 0)
    <3>1. CASE I!Next
      BY <2>1, <3>1, BatchTasks
    <3>2. CASE UNCHANGED vars
      BY <3>2 DEF vars, ingestionVars, OpenBatches, PI!TaskStep, PI!vars
    <3>3. QED
      BY <1>1, <1>3, <3>1, <3>2
  <2>3. PI!IInv' /\ PI!Entrusted(outbox', disp', OpenBatches', faults'.broken > 0)
    BY <2>1, <2>2, PI!TasksKept
  <2>4. QED
    BY <2>3 DEF BatchesEntrusted, PI!Entrusted
<1>4. ASSUME kind = "csv_import" PROVE ImportsEntrusted'
  <2>1. /\ ImportTypes /\ PC!IInv /\ PC!TypeOK
        /\ PC!Entrusted(outbox, disp, OpenImports, faults.broken > 0)
    BY <1>4 DEF TasksIInv, ImportIInv, ImportsEntrusted, PC!IInv
  <2>2. PC!TaskStep(OpenImports, faults.broken > 0, OpenImports', faults'.broken > 0)
    <3>1. CASE C!Next
      BY <2>1, <3>1, ImportTasks
    <3>2. CASE UNCHANGED vars
      BY <3>2 DEF vars, importVars, OpenImports, PC!TaskStep, PC!vars
    <3>3. QED
      BY <1>1, <1>4, <3>1, <3>2
  <2>3. PC!IInv' /\ PC!Entrusted(outbox', disp', OpenImports', faults'.broken > 0)
    BY <2>1, <2>2, PC!TasksKept
  <2>4. QED
    BY <2>3 DEF ImportsEntrusted, PC!Entrusted
<1>5. ASSUME kind = "source_run" PROVE RunsEntrusted'
  <2>1. /\ SourceTypes /\ PS!IInv /\ PS!TypeOK
        /\ PS!Entrusted(outbox, disp, OpenRuns, faults.broken > 0)
    BY <1>5 DEF TasksIInv, SourceIInv, RunsEntrusted, PS!IInv
  <2>2. PS!TaskStep(OpenRuns, faults.broken > 0, OpenRuns', faults'.broken > 0)
    <3>1. CASE S!Next
      BY <2>1, <3>1, RunTasks
    <3>2. CASE UNCHANGED vars
      BY <3>2 DEF vars, sourceVars, OpenRuns, PS!TaskStep, PS!vars
    <3>3. QED
      BY <1>1, <1>5, <3>1, <3>2
  <2>3. PS!IInv' /\ PS!Entrusted(outbox', disp', OpenRuns', faults'.broken > 0)
    BY <2>1, <2>2, PS!TasksKept
  <2>4. QED
    BY <2>3 DEF RunsEntrusted, PS!Entrusted
<1>6. QED
  BY <1>1, <1>2, <1>3, <1>4, <1>5
  DEF DeliveriesEntrusted, BatchesEntrusted, ImportsEntrusted, RunsEntrusted

\* The invariant of a worker's tasks holds in every reachable state.
THEOREM TasksInvariance == Spec => []TasksIInv
<1>1. Init => TasksIInv
  BY TasksBegin
<1>2. TasksIInv /\ [Next]_vars => TasksIInv'
  <2> SUFFICES ASSUME TasksIInv, [Next]_vars PROVE TasksIInv'
    OBVIOUS
  <2>1. DeliveryIInv' /\ IngestionIInv' /\ ImportIInv' /\ SourceIInv'
    BY DeliveryNext, IngestionStep, ImportStep, SourceNext DEF TasksIInv
  <2>2. QED
    BY <2>1, TasksStep DEF TasksIInv
<1>3. QED
  BY <1>1, <1>2, PTL DEF Spec

\* The outbox is never done with a task that is still to be done.
TasksAreDriven == \A t \in Tasks : Open(t) => outbox[t].state = "pending" \/ Broken

\* What any way to the end of a task needs (QueuedTasksEnd): as long as a
\* delivery, batch, import or source run is queued or running, its event is
\* pending, so that some worker will claim it.  The retry budget by which a
\* handler settles its task is the one by which the loop publishes the event,
\* and only a failed statement, or a dead worker, parts the two.
THEOREM TasksStayDriven == Spec => []TasksAreDriven
<1>1. TasksIInv => TasksAreDriven
  <2> SUFFICES ASSUME TasksIInv, NEW t \in Tasks, Open(t)
               PROVE  outbox[t].state = "pending" \/ Broken
    BY DEF TasksAreDriven
  <2>1. CASE kind = "webhook_delivery"
    <3>1. t \in OpenDeliveries
      BY <2>1 DEF Open, OpenDeliveries
    <3>2. QED
      BY <2>1, <3>1 DEF TasksIInv, DeliveriesEntrusted, PD!Entrusted, Broken
  <2>2. CASE kind = "ingestion_batch"
    <3>1. t \in OpenBatches
      BY <2>2 DEF Open, OpenBatches
    <3>2. QED
      BY <2>2, <3>1 DEF TasksIInv, BatchesEntrusted, PI!Entrusted, Broken
  <2>3. CASE kind = "csv_import"
    <3>1. t \in OpenImports
      BY <2>3 DEF Open, OpenImports
    <3>2. QED
      BY <2>3, <3>1 DEF TasksIInv, ImportsEntrusted, PC!Entrusted, Broken
  <2>4. CASE kind = "source_run"
    <3>1. t \in OpenRuns
      BY <2>4 DEF Open, OpenRuns
    <3>2. QED
      BY <2>4, <3>1 DEF TasksIInv, RunsEntrusted, PS!Entrusted, Broken
  <2>5. QED
    BY <2>1, <2>2, <2>3, <2>4 DEF TasksIInv, Kinds
<1>2. QED
  BY <1>1, TasksInvariance, PTL

\* While batches of events settle within their lease, a task is in the hands
\* of one worker.
OneWorker ==
  faults.late = 0 =>
    \A d1, d2 \in Dispatchers :
      d1 # d2 => disp[d1].batch \intersect disp[d2].batch = {}

\* The outbox gives every task to one worker at a time, whatever its handler
\* does and however often workers die, unless a lease runs out under a worker
\* (the fence of outbox.ts under the handlers of task-handlers.ts).
THEOREM TasksHaveOneWorker == Spec => []OneWorker
<1>1. TasksIInv => OneWorker
  <2> SUFFICES ASSUME TasksIInv PROVE OneWorker
    OBVIOUS
  <2>1. CASE kind = "webhook_delivery"
    BY <2>1, OutboxesFit, PD!HeldByOne
    DEF TasksIInv, DeliveriesEntrusted, PD!IInv, PD!ExclusiveExecution, OneWorker
  <2>2. CASE kind = "ingestion_batch"
    BY <2>2, OutboxesFit, PI!HeldByOne
    DEF TasksIInv, BatchesEntrusted, PI!IInv, PI!ExclusiveExecution, OneWorker
  <2>3. CASE kind = "csv_import"
    BY <2>3, OutboxesFit, PC!HeldByOne
    DEF TasksIInv, ImportsEntrusted, PC!IInv, PC!ExclusiveExecution, OneWorker
  <2>4. CASE kind = "source_run"
    BY <2>4, OutboxesFit, PS!HeldByOne
    DEF TasksIInv, RunsEntrusted, PS!IInv, PS!ExclusiveExecution, OneWorker
  <2>5. QED
    BY <2>1, <2>2, <2>3, <2>4 DEF TasksIInv, Kinds
<1>2. QED
  BY <1>1, TasksInvariance, PTL

=============================================================================
