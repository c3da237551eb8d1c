-------------------------- MODULE PipelineWorkerProofs --------------------------
(***************************************************************************)
(* Theorems about PipelineWorker, for every set of jobs and workers and    *)
(* every MaxAttempts.  The first part holds for any timing; the second one *)
(* is about the jobs whose lease never ran out under a worker at work.     *)
(***************************************************************************)
EXTENDS PipelineWorker, FiniteSetTheorems, TLAPS

-------------------------------------------------------------------------------
(* What one SQL statement of the job repository makes of one row *)

\* What every row of the table satisfies, as in PipelineJobsProofs.
Sound(r) ==
  /\ r \in Row
  /\ r.status = "queued" => r.attempts < MaxAttempts
  /\ r.status = "running" <=> r.owner # NoOne
  /\ r.status = "running" <=> r.lease # "none"
  /\ r.finished <=> r.status \in {"succeeded", "failed"}
  /\ r.error <=> r.status = "failed"

\* The row before the insert and the row the insert creates are sound.
LEMMA NewRowsSound == Sound(NoRow) /\ Sound(CreatedRow)
<1>1. MaxAttempts \in Nat /\ 0 < MaxAttempts /\ TotalUnits \in Nat
  BY MaxAttemptsAssumption, TotalUnitsAssumption
<1>2. NoRow \in Row
  BY <1>1 DEF Row, NoRow, Stage
<1>3. CreatedRow \in Row
  BY <1>2 DEF Row, CreatedRow, Status
<1> QED
  BY <1>1, <1>2, <1>3 DEF Sound, NoRow, CreatedRow

\* A claim spends an attempt the row still has; only rows without an outcome are
\* claimed.
LEMMA ClaimedRowSound ==
  ASSUME NEW r, Sound(r), r.attempts < MaxAttempts, r.status \in {"queued", "running"},
         NEW w \in Workers
  PROVE  Sound(ClaimedRow(r, w))
<1>1. w # NoOne
  BY WorkersAssumption
<1>2. r.attempts + 1 \in 0..MaxAttempts
  BY MaxAttemptsAssumption DEF Sound, Row
<1>3. ClaimedRow(r, w) \in Row
  BY <1>2 DEF Sound, Row, ClaimedRow, Status
<1> QED
  BY <1>1, <1>3 DEF Sound, Row, ClaimedRow

\* Progress leaves alone what soundness speaks of.
LEMMA ProgressRowSound ==
  ASSUME NEW r, Sound(r), NEW n \in 0..TotalUnits, NEW t \in 0..TotalUnits,
         NEW s \in Stage
  PROVE  Sound(ProgressRow(r, n, t, s))
  BY DEF Sound, Row, ProgressRow

\* Settling a row, whatever its status was, clears its lease.
LEMMA SettledRowsSound ==
  ASSUME NEW r, Sound(r)
  PROVE  Sound(SucceededRow(r)) /\ Sound(FailedRow(r))
  BY DEF Sound, Row, SucceededRow, FailedRow, Status, Stage

\* A row goes back to the queue only with an attempt left.
LEMMA RetriedRowSound ==
  ASSUME NEW r, Sound(r), Retryable(r)
  PROVE  Sound(RetriedRow(r))
  BY DEF Sound, Row, RetriedRow, Retryable, Status

\* The clock and a heartbeat change the lease of a running row only.
LEMMA LeaseRowSound ==
  ASSUME NEW r, Sound(r), r.lease # "none", NEW l \in {"live", "expired"}
  PROVE  Sound([r EXCEPT !.lease = l])
  BY DEF Sound, Row

\* What a claim may take has an attempt left and no outcome.
LEMMA ClaimableHasAttempt ==
  ASSUME NEW rows, \A k \in Jobs : Sound(rows[k]), NEW order, NEW locked,
         NEW j \in ClaimNext(rows, order, locked)
  PROVE  /\ j \in Jobs
         /\ rows[j].attempts < MaxAttempts
         /\ rows[j].status \in {"queued", "running"}
  BY DEF ClaimNext, Reclaimable, Sound

\* The queue order keeps its type.
LEMMA RequeuedType ==
  ASSUME NEW rows, NEW order \in SUBSET (Jobs \X Jobs), NEW j \in Jobs
  PROVE  Requeued(rows, order, j) \in SUBSET (Jobs \X Jobs)
  BY DEF Requeued

-------------------------------------------------------------------------------
(* The inductive invariant *)

\* Where each worker is and what it holds.
Places ==
  /\ file \in [Jobs -> ParseStatus]
  /\ chunked \in [Jobs -> BOOLEAN]
  /\ pc \in [Workers -> Trying \union {"idle", "failing", "file_failed"}]
  /\ held \in [Workers -> Jobs \union {NoJob}]
  /\ overrun \in SUBSET Jobs
  /\ \A w \in Workers : pc[w] = "idle" <=> held[w] = NoJob

\* What the table satisfies, as in PipelineJobsProofs.
Rows ==
  /\ jobs \in [Jobs -> Row]
  /\ before \in SUBSET (Jobs \X Jobs)
  /\ \A j \in Jobs : Sound(jobs[j])

\* A held job was inserted.  The worker sets its total with the first progress, and
\* nothing takes that back.
Working ==
  \A w \in Workers :
    /\ pc[w] # "idle" => jobs[held[w]].status # "absent"
    /\ pc[w] \in {"started", "extracted", "indexing"} => jobs[held[w]].total = TotalUnits

Inv == Places /\ Rows /\ Working

-------------------------------------------------------------------------------
(* Any timing *)

LEMMA InitInv == Init => Inv
<1> SUFFICES ASSUME Init PROVE Inv
  OBVIOUS
<1>1. Places
  BY DEF Init, Places, ParseStatus
<1>2. Rows
  BY NewRowsSound DEF Init, Rows, Sound
<1>3. Working
  BY DEF Init, Working, NoRow
<1> QED
  BY <1>1, <1>2, <1>3 DEF Inv

\* A worker that is not idle holds a job.
LEMMA HoldsJob ==
  ASSUME Places, NEW w \in Workers, pc[w] # "idle"
  PROVE  held[w] \in Jobs
  BY DEF Places

\* Places is kept by every step.
LEMMA NextPlaces == Inv /\ [Next]_vars => Places'
<1> SUFFICES ASSUME Inv, [Next]_vars PROVE Places'
  OBVIOUS
<1> USE NoJobAssumption DEF Places, Inv
<1>1. ASSUME NEW j \in Jobs, Upload(j) \/ RetryApi(j) \/ LeaseExpires(j) PROVE Places'
  BY <1>1 DEF Upload, RetryApi, LeaseExpires
<1>2. ASSUME NEW w \in Workers, ClaimNextJob(w) PROVE Places'
  <2>1. PICK j \in ClaimNext(jobs, before, Locked) : held' = [held EXCEPT ![w] = j]
    BY <1>2 DEF ClaimNextJob
  <2>2. j \in Jobs
    BY ClaimableHasAttempt DEF Rows
  <2> QED
    BY <1>2, <2>1, <2>2 DEF ClaimNextJob, Goto, Trying
<1>3. ASSUME NEW w \in Workers, Start(w) PROVE Places'
  BY <1>3, HoldsJob DEF Start, Goto, Trying, ParseStatus
<1>4. ASSUME NEW w \in Workers, Extract(w) PROVE Places'
  BY <1>4 DEF Extract, Goto, Trying
<1>5. ASSUME NEW w \in Workers, BeginIndex(w) PROVE Places'
  BY <1>5 DEF BeginIndex, Goto, Trying
<1>6. ASSUME NEW w \in Workers, CommitIndex(w) PROVE Places'
  BY <1>6 DEF CommitIndex, Leave, ParseStatus
<1>7. ASSUME NEW w \in Workers, FailFile(w) PROVE Places'
  BY <1>7 DEF FailFile, Goto, ParseStatus
<1>8. ASSUME NEW w \in Workers, FailJob(w) PROVE Places'
  BY <1>8 DEF FailJob, Leave
<1>9. ASSUME NEW w \in Workers, Raise(w) PROVE Places'
  BY <1>9 DEF Raise, Goto, Trying
<1>10. ASSUME NEW w \in Workers, Crash(w) PROVE Places'
  BY <1>10 DEF Crash, Leave
<1>11. CASE UNCHANGED vars
  BY <1>11 DEF vars
<1> QED
  BY <1>1, <1>2, <1>3, <1>4, <1>5, <1>6, <1>7, <1>8, <1>9, <1>10, <1>11
     DEF Next, WorkerStep

\* A step that gives one row a sound value and keeps the order's type keeps Rows.
LEMMA OneRowChanges ==
  ASSUME Rows, NEW j \in Jobs, NEW r, Sound(r),
         jobs' = [jobs EXCEPT ![j] = r],
         before' \in SUBSET (Jobs \X Jobs)
  PROVE  Rows'
  BY DEF Rows, Sound

\* The units the worker reports are units of the table.
LEMMA UnitsAndStages ==
  /\ 0 \in 0..TotalUnits /\ 1 \in 0..TotalUnits /\ TotalUnits \in 0..TotalUnits
  /\ "text_extraction" \in Stage
  BY TotalUnitsAssumption DEF Stage

LEMMA NextRows == Inv /\ [Next]_vars => Rows'
<1> SUFFICES ASSUME Inv, [Next]_vars PROVE Rows'
  OBVIOUS
<1> USE DEF Inv
<1>0. \A j \in Jobs : Sound(jobs[j])
  BY DEF Rows
<1>1. ASSUME NEW j \in Jobs, Upload(j) PROVE Rows'
  BY <1>1, NewRowsSound, OneRowChanges, RequeuedType DEF Upload, Rows
<1>2. ASSUME NEW j \in Jobs, RetryApi(j) PROVE Rows'
  BY <1>2, <1>0, RetriedRowSound, OneRowChanges, RequeuedType DEF RetryApi, Rows
<1>3. ASSUME NEW j \in Jobs, LeaseExpires(j) PROVE Rows'
  <2>1. Sound([jobs[j] EXCEPT !.lease = "expired"])
    BY <1>0, <1>3, LeaseRowSound DEF LeaseExpires
  <2> QED
    BY <1>3, <2>1, OneRowChanges DEF LeaseExpires, Rows
<1>4. ASSUME NEW w \in Workers, ClaimNextJob(w) PROVE Rows'
  <2>1. PICK j \in ClaimNext(jobs, before, Locked) :
          jobs' = [jobs EXCEPT ![j] = ClaimedRow(@, w)]
    BY <1>4 DEF ClaimNextJob
  <2>2. /\ j \in Jobs
        /\ jobs[j].attempts < MaxAttempts
        /\ jobs[j].status \in {"queued", "running"}
    BY <1>0, ClaimableHasAttempt
  <2>3. Sound(ClaimedRow(jobs[j], w))
    BY <1>0, <2>2, ClaimedRowSound
  <2> QED
    BY <1>4, <2>1, <2>2, <2>3, OneRowChanges DEF ClaimNextJob, Rows
<1>5. ASSUME NEW w \in Workers, Start(w) PROVE Rows'
  <2>1. held[w] \in Jobs
    BY <1>5, HoldsJob DEF Start
  <2>2. Sound(ProgressRow(jobs[held[w]], 0, TotalUnits, "text_extraction"))
    BY <1>0, <2>1, ProgressRowSound, UnitsAndStages
  <2> QED
    BY <1>5, <2>1, <2>2, OneRowChanges DEF Start, Rows
<1>6. ASSUME NEW w \in Workers, Extract(w) PROVE Rows'
  <2>1. held[w] \in Jobs
    BY <1>6, HoldsJob DEF Extract
  <2>2. Sound(ProgressRow(jobs[held[w]], 1, TotalUnits, "text_extraction"))
    BY <1>0, <2>1, ProgressRowSound, UnitsAndStages
  <2> QED
    BY <1>6, <2>1, <2>2, OneRowChanges DEF Extract, Rows
<1>7. ASSUME NEW w \in Workers, CommitIndex(w) PROVE Rows'
  <2>1. held[w] \in Jobs
    BY <1>7, HoldsJob DEF CommitIndex
  <2>2. Sound(ProgressRow(jobs[held[w]], TotalUnits, TotalUnits, "text_extraction"))
    BY <1>0, <2>1, ProgressRowSound, UnitsAndStages
  <2>3. Sound(SucceededRow(
          ProgressRow(jobs[held[w]], TotalUnits, TotalUnits, "text_extraction")))
    BY <2>2, SettledRowsSound
  <2> QED
    BY <1>7, <2>1, <2>3, OneRowChanges DEF CommitIndex, Rows
<1>8. ASSUME NEW w \in Workers, FailJob(w) PROVE Rows'
  <2>1. held[w] \in Jobs
    BY <1>8, HoldsJob DEF FailJob
  <2>2. Sound(FailedRow(jobs[held[w]]))
    BY <1>0, <2>1, SettledRowsSound
  <2> QED
    BY <1>8, <2>1, <2>2, OneRowChanges DEF FailJob, Rows
<1>9. ASSUME NEW w \in Workers, BeginIndex(w) \/ FailFile(w) \/ Raise(w) \/ Crash(w)
      PROVE  Rows'
  BY <1>9 DEF BeginIndex, FailFile, Raise, Crash, Rows
<1>10. CASE UNCHANGED vars
  BY <1>10 DEF vars, Rows
<1> QED
  BY <1>1, <1>2, <1>3, <1>4, <1>5, <1>6, <1>7, <1>8, <1>9, <1>10 DEF Next, WorkerStep


\* What the statements leave alone.
LEMMA RowColumns ==
  ASSUME NEW r \in Row, NEW w, NEW n \in Nat
  PROVE  /\ ClaimedRow(r, w).total = r.total
         /\ ClaimedRow(r, w).status = "running"
         /\ ProgressRow(r, n, TotalUnits, "text_extraction").total = TotalUnits
         /\ ProgressRow(r, n, TotalUnits, "text_extraction").status = r.status
         /\ SucceededRow(r).total = r.total
         /\ SucceededRow(r).status = "succeeded"
         /\ FailedRow(r).total = r.total
         /\ FailedRow(r).status = "failed"
         /\ RetriedRow(r).total = r.total
         /\ RetriedRow(r).status = "queued"
  BY DEF Row, ClaimedRow, ProgressRow, SucceededRow, FailedRow, RetriedRow

\* What a step makes of an inserted row: it stays inserted, keeps a total that was
\* set, and succeeds only with its data.
LEMMA RowStep ==
  ASSUME Inv, [Next]_vars, NEW j \in Jobs
  PROVE  /\ jobs[j].status # "absent" =>
              /\ jobs'[j].status # "absent"
              /\ jobs[j].total = TotalUnits => jobs'[j].total = TotalUnits
         /\ chunked[j] => chunked'[j]
         /\ jobs'[j].status = "succeeded" => jobs[j].status = "succeeded" \/ chunked'[j]
<1> USE DEF Inv, Rows
<1> DEFINE Goal ==
      /\ jobs[j].status # "absent" =>
           /\ jobs'[j].status # "absent"
           /\ jobs[j].total = TotalUnits => jobs'[j].total = TotalUnits
      /\ chunked[j] => chunked'[j]
      /\ jobs'[j].status = "succeeded" => jobs[j].status = "succeeded" \/ chunked'[j]
<1>1. ASSUME NEW k \in Jobs, Upload(k) PROVE Goal
  BY <1>1 DEF Upload, CreatedRow, NoRow
<1>2. ASSUME NEW k \in Jobs, RetryApi(k) PROVE Goal
  BY <1>2, RowColumns DEF RetryApi
<1>3. ASSUME NEW k \in Jobs, LeaseExpires(k) PROVE Goal
  BY <1>3 DEF LeaseExpires, Row
<1>4. ASSUME NEW w \in Workers, ClaimNextJob(w) PROVE Goal
  <2>1. PICK k \in ClaimNext(jobs, before, Locked) :
          jobs' = [jobs EXCEPT ![k] = ClaimedRow(@, w)]
    BY <1>4 DEF ClaimNextJob
  <2>2. k \in Jobs
    BY ClaimableHasAttempt
  <2>3. ClaimedRow(jobs[k], w).total = jobs[k].total /\ ClaimedRow(jobs[k], w).status = "running"
    BY <2>2, RowColumns
  <2>4. UNCHANGED chunked
    BY <1>4 DEF ClaimNextJob
  <2> QED
    BY <2>1, <2>2, <2>3, <2>4
<1>5. ASSUME NEW w \in Workers, Start(w) \/ Extract(w) PROVE Goal
  <2>1. held[w] \in Jobs
    BY <1>5, HoldsJob DEF Start, Extract
  <2>2. PICK n \in {0, 1} :
          jobs' = [jobs EXCEPT ![held[w]] = ProgressRow(@, n, TotalUnits, "text_extraction")]
    BY <1>5 DEF Start, Extract
  <2>3. /\ jobs'[held[w]].total = TotalUnits
        /\ jobs'[held[w]].status = jobs[held[w]].status
    BY <2>1, <2>2, RowColumns
  <2>4. UNCHANGED chunked
    BY <1>5 DEF Start, Extract
  <2> QED
    BY <2>1, <2>2, <2>3, <2>4
<1>6. ASSUME NEW w \in Workers, CommitIndex(w) PROVE Goal
  <2>1. held[w] \in Jobs
    BY <1>6, HoldsJob DEF CommitIndex
  <2> DEFINE p == ProgressRow(jobs[held[w]], TotalUnits, TotalUnits, "text_extraction")
  <2>2. p \in Row /\ p.total = TotalUnits
    BY <2>1, RowColumns, ProgressRowSound, UnitsAndStages, TotalUnitsAssumption DEF Sound
  <2>3. SucceededRow(p).total = TotalUnits /\ SucceededRow(p).status = "succeeded"
    BY <2>2, RowColumns
  <2> HIDE DEF p
  <2>4. /\ jobs' = [jobs EXCEPT ![held[w]] = SucceededRow(p)]
        /\ chunked' = [chunked EXCEPT ![held[w]] = TRUE]
    BY <1>6 DEF CommitIndex, p
  <2> QED
    BY <2>1, <2>3, <2>4 DEF Places
<1>7. ASSUME NEW w \in Workers, FailJob(w) PROVE Goal
  BY <1>7, RowColumns DEF FailJob
<1>8. ASSUME NEW w \in Workers, BeginIndex(w) \/ FailFile(w) \/ Raise(w) \/ Crash(w)
      PROVE  Goal
  BY <1>8 DEF BeginIndex, FailFile, Raise, Crash
<1>9. CASE UNCHANGED vars
  BY <1>9 DEF vars
<1> QED
  BY <1>1, <1>2, <1>3, <1>4, <1>5, <1>6, <1>7, <1>8, <1>9 DEF Next, WorkerStep


LEMMA NextWorking == Inv /\ [Next]_vars => Working'
<1> SUFFICES ASSUME Inv, [Next]_vars, NEW w \in Workers, pc'[w] # "idle"
             PROVE  /\ jobs'[held'[w]].status # "absent"
                    /\ pc'[w] \in {"started", "extracted", "indexing"} =>
                         jobs'[held'[w]].total = TotalUnits
  BY DEF Working
<1> USE DEF Inv
<1> DEFINE Goal ==
      /\ jobs'[held'[w]].status # "absent"
      /\ pc'[w] \in {"started", "extracted", "indexing"} =>
           jobs'[held'[w]].total = TotalUnits
<1>1. ASSUME ClaimNextJob(w) PROVE Goal
  <2>1. PICK j \in ClaimNext(jobs, before, Locked) :
          /\ jobs' = [jobs EXCEPT ![j] = ClaimedRow(@, w)]
          /\ held' = [held EXCEPT ![w] = j]
    BY <1>1 DEF ClaimNextJob
  <2>2. j \in Jobs
    BY ClaimableHasAttempt DEF Rows
  <2>3. ClaimedRow(jobs[j], w).status = "running"
    BY <2>2, RowColumns DEF Rows
  <2>4. pc'[w] = "claimed"
    BY <1>1 DEF ClaimNextJob, Goto, Places
  <2> QED
    BY <2>1, <2>2, <2>3, <2>4 DEF Rows, Places
<1>2. ASSUME Start(w) PROVE Goal
  <2>1. held[w] \in Jobs /\ held'[w] = held[w]
    BY <1>2, HoldsJob DEF Start
  <2>2. jobs'[held[w]] = ProgressRow(jobs[held[w]], 0, TotalUnits, "text_extraction")
    BY <1>2, <2>1 DEF Start, Rows
  <2>3. ProgressRow(jobs[held[w]], 0, TotalUnits, "text_extraction").total = TotalUnits
    <3>1. jobs[held[w]] \in Row
      BY <2>1 DEF Rows
    <3> QED
      BY <3>1 DEF ProgressRow, Row
  <2>4. jobs'[held[w]].status # "absent"
    BY <1>2, <2>1, RowStep DEF Start, Working
  <2>5. jobs'[held[w]].total = TotalUnits
    BY <2>2, <2>3
  <2> QED
    BY <2>1, <2>4, <2>5
<1>3. ASSUME pc[w] # "idle", held'[w] = held[w],
             pc'[w] \in {"started", "extracted", "indexing"} =>
               pc[w] \in {"started", "extracted", "indexing"}
      PROVE  Goal
  <2>1. held[w] \in Jobs
    BY <1>3, HoldsJob
  <2> QED
    BY <1>3, <2>1, RowStep DEF Working
<1>4. ASSUME Extract(w) \/ BeginIndex(w) \/ FailFile(w) \/ Raise(w) PROVE Goal
  BY <1>3, <1>4 DEF Extract, BeginIndex, FailFile, Raise, Goto, Places, Trying
<1>5. ASSUME CommitIndex(w) \/ FailJob(w) \/ Crash(w) PROVE Goal
  BY <1>5 DEF CommitIndex, FailJob, Crash, Leave, Places
<1>6. ASSUME NEW u \in Workers, u # w, WorkerStep(u) \/ Raise(u) \/ Crash(u) PROVE Goal
  <2>1. pc'[w] = pc[w] /\ held'[w] = held[w]
    BY <1>6 DEF WorkerStep, ClaimNextJob, Start, Extract, BeginIndex, CommitIndex,
                FailFile, FailJob, Raise, Crash, Goto, Leave, Places
  <2> QED
    BY <1>3, <2>1
<1>7. ASSUME NEW j \in Jobs, Upload(j) \/ RetryApi(j) \/ LeaseExpires(j) PROVE Goal
  BY <1>3, <1>7 DEF Upload, RetryApi, LeaseExpires
<1>8. CASE UNCHANGED vars
  BY <1>3, <1>8 DEF vars
<1> QED
  BY <1>1, <1>2, <1>4, <1>5, <1>6, <1>7, <1>8 DEF Next, WorkerStep

LEMMA NextInv == Inv /\ [Next]_vars => Inv'
  BY NextPlaces, NextRows, NextWorking DEF Inv

LEMMA InvHolds == Spec => []Inv
  BY InitInv, NextInv, PTL DEF Spec

\* The types hold for any timing, zombies included.
THEOREM TypeCorrect == Spec => []TypeOK
<1>1. Inv => TypeOK
  BY DEF Inv, Places, Rows, TypeOK
<1> QED
  BY <1>1, InvHolds, PTL

-------------------------------------------------------------------------------
(* Late workers are counted *)

\* Every holder of a job has spent one of its attempts.
Counted ==
  \A j \in Jobs :
    /\ IsFiniteSet(Holder(j))
    /\ Cardinality(Holder(j)) <= jobs[j].attempts

CountInv == Inv /\ Counted

\* A statement leaves the attempts alone or counts one.
LEMMA Attempts ==
  ASSUME NEW r \in Row, NEW w, NEW n \in Nat
  PROVE  /\ ClaimedRow(r, w).attempts = r.attempts + 1
         /\ ProgressRow(r, n, TotalUnits, "text_extraction").attempts = r.attempts
         /\ SucceededRow(r).attempts = r.attempts
         /\ FailedRow(r).attempts = r.attempts
         /\ RetriedRow(r).attempts = r.attempts
         /\ [r EXCEPT !.lease = "expired"].attempts = r.attempts
  BY DEF Row, ClaimedRow, ProgressRow, SucceededRow, FailedRow, RetriedRow

\* A job gets a holder only with an attempt, and loses none before it has lost its holders.
LEMMA AttemptsStep ==
  ASSUME Inv, [Next]_vars, NEW j \in Jobs
  PROVE  \/ Holder(j)' \subseteq Holder(j) /\ jobs'[j].attempts = jobs[j].attempts
         \/ Holder(j)' = {} /\ jobs'[j].attempts = 0
         \/ \E w \in Workers : /\ Holder(j)' \subseteq Holder(j) \union {w}
                              /\ jobs'[j].attempts = jobs[j].attempts + 1
                              /\ jobs'[j].status = "running"
<1> DEFINE Goal ==
      \/ Holder(j)' \subseteq Holder(j) /\ jobs'[j].attempts = jobs[j].attempts
      \/ Holder(j)' = {} /\ jobs'[j].attempts = 0
      \/ \E w \in Workers : /\ Holder(j)' \subseteq Holder(j) \union {w}
                           /\ jobs'[j].attempts = jobs[j].attempts + 1
                           /\ jobs'[j].status = "running"
<1>0. /\ Places /\ jobs \in [Jobs -> Row] /\ held \in [Workers -> Jobs \union {NoJob}]
      /\ \A k \in Jobs : jobs[k] \in Row
  BY DEF Inv, Places, Rows
<1>1. ASSUME \A u \in Workers : held'[u] \in {held[u], NoJob},
             jobs'[j].attempts = jobs[j].attempts
      PROVE  Goal
  BY <1>1, NoJobAssumption DEF Holder
<1>2. ASSUME NEW k \in Jobs, NEW r, jobs' = [jobs EXCEPT ![k] = r],
             r.attempts = jobs[k].attempts
      PROVE  jobs'[j].attempts = jobs[j].attempts
  BY <1>0, <1>2
<1>3. ASSUME NEW k \in Jobs, Upload(k) PROVE Goal
  <2>1. CASE j = k
    <3>1. jobs'[j].attempts = 0
      BY <1>0, <1>3, <2>1 DEF Upload, CreatedRow, NoRow
    <3>2. held' = held /\ jobs[j].status = "absent"
      BY <1>3, <2>1 DEF Upload
    <3>3. \A u \in Workers : held[u] # j
      BY <1>0, <3>2, NoJobAssumption DEF Inv, Working, Places
    <3> QED
      BY <3>1, <3>2, <3>3 DEF Holder
  <2>2. CASE j # k
    BY <1>0, <1>1, <1>3, <2>2 DEF Upload
  <2> QED
    BY <2>1, <2>2
<1>4. ASSUME NEW k \in Jobs, RetryApi(k) PROVE Goal
  <2>1. jobs' = [jobs EXCEPT ![k] = RetriedRow(jobs[k])] /\ held' = held
    BY <1>4 DEF RetryApi
  <2> QED
    BY <1>0, <1>1, <1>2, <2>1, Attempts
<1>5. ASSUME NEW k \in Jobs, LeaseExpires(k) PROVE Goal
  <2>1. jobs' = [jobs EXCEPT ![k] = [jobs[k] EXCEPT !.lease = "expired"]] /\ held' = held
    BY <1>5 DEF LeaseExpires
  <2>2. [jobs[k] EXCEPT !.lease = "expired"].attempts = jobs[k].attempts
    BY <1>0, Attempts
  <2> QED
    BY <1>1, <1>2, <2>1, <2>2
<1>6. ASSUME NEW w \in Workers, ClaimNextJob(w) PROVE Goal
  <2>1. PICK k \in ClaimNext(jobs, before, Locked) :
          /\ jobs' = [jobs EXCEPT ![k] = ClaimedRow(jobs[k], w)]
          /\ held' = [held EXCEPT ![w] = k]
    BY <1>6 DEF ClaimNextJob
  <2>2. k \in Jobs
    BY ClaimableHasAttempt DEF Inv, Rows
  <2>3. CASE j = k
    <3>1. jobs'[j].attempts = jobs[j].attempts + 1 /\ jobs'[j].status = "running"
      BY <1>0, <2>1, <2>2, <2>3, Attempts, RowColumns
    <3>2. Holder(j)' \subseteq Holder(j) \union {w}
      BY <1>0, <2>1 DEF Holder
    <3> QED
      BY <3>1, <3>2
  <2>4. CASE j # k
    <3>1. jobs'[j] = jobs[j] /\ Holder(j)' \subseteq Holder(j)
      BY <1>0, <2>1, <2>2, <2>4 DEF Holder
    <3> QED
      BY <3>1
  <2> QED
    BY <2>3, <2>4
<1>7. ASSUME NEW w \in Workers, Start(w) \/ Extract(w) PROVE Goal
  <2>1. held[w] \in Jobs
    BY <1>0, <1>7, HoldsJob DEF Start, Extract
  <2>2. PICK n \in {0, 1} : jobs' = [jobs EXCEPT ![held[w]] =
                              ProgressRow(jobs[held[w]], n, TotalUnits, "text_extraction")]
    BY <1>7 DEF Start, Extract
  <2>3. held' = held
    BY <1>7 DEF Start, Extract
  <2>4. ProgressRow(jobs[held[w]], n, TotalUnits, "text_extraction").attempts
          = jobs[held[w]].attempts
    BY <1>0, <2>1 DEF Row, ProgressRow
  <2>5. jobs'[j].attempts = jobs[j].attempts
    BY <1>2, <2>1, <2>2, <2>4
  <2> QED
    BY <1>1, <2>3, <2>5
<1>8. ASSUME NEW w \in Workers, CommitIndex(w) PROVE Goal
  <2>1. held[w] \in Jobs
    BY <1>0, <1>8, HoldsJob DEF CommitIndex
  <2> DEFINE p == ProgressRow(jobs[held[w]], TotalUnits, TotalUnits, "text_extraction")
  <2>2. p \in Row /\ p.attempts = jobs[held[w]].attempts
    BY <1>0, <2>1, Attempts, ProgressRowSound, UnitsAndStages, TotalUnitsAssumption
       DEF Sound, Inv, Rows
  <2>3. jobs' = [jobs EXCEPT ![held[w]] = SucceededRow(p)]
    BY <1>8 DEF CommitIndex
  <2>4. \A u \in Workers : held'[u] \in {held[u], NoJob}
    BY <1>0, <1>8 DEF CommitIndex, Leave
  <2> HIDE DEF p
  <2>5. SucceededRow(p).attempts = jobs[held[w]].attempts
    BY <2>2, Attempts
  <2> QED
    BY <1>1, <1>2, <2>1, <2>3, <2>4, <2>5
<1>9. ASSUME NEW w \in Workers, FailJob(w) PROVE Goal
  <2>1. held[w] \in Jobs
    BY <1>0, <1>9, HoldsJob DEF FailJob
  <2>2. jobs' = [jobs EXCEPT ![held[w]] = FailedRow(jobs[held[w]])]
    BY <1>9 DEF FailJob
  <2>3. \A u \in Workers : held'[u] \in {held[u], NoJob}
    BY <1>0, <1>9 DEF FailJob, Leave
  <2> QED
    BY <1>0, <1>1, <1>2, <2>1, <2>2, <2>3, Attempts
<1>10. ASSUME NEW w \in Workers, BeginIndex(w) \/ FailFile(w) \/ Raise(w) \/ Crash(w)
       PROVE  Goal
  <2>1. jobs' = jobs /\ \A u \in Workers : held'[u] \in {held[u], NoJob}
    BY <1>0, <1>10 DEF BeginIndex, FailFile, Raise, Crash, Leave
  <2> QED
    BY <1>1, <2>1
<1>11. CASE UNCHANGED vars
  BY <1>1, <1>11 DEF vars
<1> QED
  BY <1>3, <1>4, <1>5, <1>6, <1>7, <1>8, <1>9, <1>10, <1>11 DEF Next, WorkerStep

LEMMA NextCounted == CountInv /\ [Next]_vars => Counted'
<1> SUFFICES ASSUME CountInv, [Next]_vars, NEW j \in Jobs
             PROVE  IsFiniteSet(Holder(j)') /\ Cardinality(Holder(j)') <= jobs'[j].attempts
  BY DEF Counted
<1>0. /\ Inv /\ IsFiniteSet(Holder(j)) /\ Cardinality(Holder(j)) \in Nat
      /\ Cardinality(Holder(j)) <= jobs[j].attempts
  BY FS_CardinalityType DEF CountInv, Counted
<1>1. jobs[j].attempts \in Nat
  BY <1>0, MaxAttemptsAssumption DEF Inv, Rows, Row
<1>2. CASE Holder(j)' \subseteq Holder(j) /\ jobs'[j].attempts = jobs[j].attempts
  <2>1. IsFiniteSet(Holder(j)') /\ Cardinality(Holder(j)') <= Cardinality(Holder(j))
        /\ Cardinality(Holder(j)') \in Nat
    BY <1>0, <1>2, FS_Subset, FS_CardinalityType
  <2> QED
    BY <1>0, <1>1, <1>2, <2>1
<1>3. CASE Holder(j)' = {} /\ jobs'[j].attempts = 0
  BY <1>3, FS_EmptySet
<1>4. CASE \E w \in Workers : /\ Holder(j)' \subseteq Holder(j) \union {w}
                             /\ jobs'[j].attempts = jobs[j].attempts + 1
  <2>1. PICK w \in Workers : /\ Holder(j)' \subseteq Holder(j) \union {w}
                             /\ jobs'[j].attempts = jobs[j].attempts + 1
    BY <1>4
  <2>2. IsFiniteSet(Holder(j) \union {w})
    BY <1>0, FS_AddElement
  <2>3. Cardinality(Holder(j) \union {w}) =
          IF w \in Holder(j) THEN Cardinality(Holder(j)) ELSE Cardinality(Holder(j)) + 1
    BY <1>0, FS_AddElement
  <2>4. /\ Cardinality(Holder(j) \union {w}) \in Nat
        /\ Cardinality(Holder(j) \union {w}) <= Cardinality(Holder(j)) + 1
    BY <1>0, <2>3
  <2>5. /\ IsFiniteSet(Holder(j)')
        /\ Cardinality(Holder(j)') <= Cardinality(Holder(j) \union {w})
        /\ Cardinality(Holder(j)') \in Nat
    BY <2>1, <2>2, FS_Subset, FS_CardinalityType
  <2> QED
    BY <1>0, <1>1, <2>1, <2>4, <2>5
<1> QED
  BY <1>0, <1>2, <1>3, <1>4, AttemptsStep

LEMMA InitCounted == Init => CountInv
<1> SUFFICES ASSUME Init PROVE CountInv
  OBVIOUS
<1>1. \A j \in Jobs : Holder(j) = {} /\ jobs[j].attempts = 0
  BY NoJobAssumption DEF Init, Holder, NoRow
<1> QED
  BY <1>1, InitInv, FS_EmptySet DEF CountInv, Counted

\* However many leases run out, a job never has more workers than attempts it spent.
THEOREM HoldersSpentAttemptsHolds == Spec => []HoldersSpentAttempts
<1>1. Init => CountInv
  BY InitCounted
<1>2. CountInv /\ [Next]_vars => CountInv'
  BY NextInv, NextCounted DEF CountInv
<1>3. CountInv => HoldersSpentAttempts
  BY DEF CountInv, Counted, HoldersSpentAttempts, Holder
<1> QED
  BY <1>1, <1>2, <1>3, PTL DEF Spec

-------------------------------------------------------------------------------
(* The worker program is a client of the repository *)

\* The worker's last progress update changes nothing that mark_pipeline_succeeded
\* does not write as well.
LEMMA LastProgressIsAbsorbed ==
  ASSUME NEW r \in Row, r.total = TotalUnits
  PROVE  SucceededRow(ProgressRow(r, TotalUnits, TotalUnits, "text_extraction"))
           = SucceededRow(r)
<1> DEFINE settled(q) == [q EXCEPT !.status = "succeeded", !.stage = "completed",
                                   !.done = TotalUnits, !.owner = NoOne, !.lease = "none",
                                   !.error = FALSE, !.finished = TRUE]
           p == [r EXCEPT !.stage = "text_extraction", !.done = TotalUnits]
<1>1. TotalUnits \in Nat /\ TotalUnits > 0
  BY TotalUnitsAssumption
<1>2. ASSUME NEW q, q.total = TotalUnits PROVE SucceededRow(q) = settled(q)
  BY <1>1, <1>2 DEF SucceededRow
<1>3. ProgressRow(r, TotalUnits, TotalUnits, "text_extraction") = p
  BY DEF Row, ProgressRow
<1>4. p.total = TotalUnits
  BY DEF Row
<1>5. settled(p) = settled(r)
  BY DEF Row
<1> HIDE DEF p, settled
<1> QED
  BY <1>2, <1>3, <1>4, <1>5

\* The two modules are built from the same statements.
LEMMA SameRows ==
  /\ Repository!NoRow = NoRow /\ Repository!CreatedRow = CreatedRow
  /\ Repository!Stage = Stage
  /\ \A r : /\ Repository!Retryable(r) <=> Retryable(r)
            /\ Repository!RetriedRow(r) = RetriedRow(r)
            /\ Repository!FailedRow(r) = FailedRow(r)
            /\ Repository!SucceededRow(r) = SucceededRow(r)
  /\ \A r, w : Repository!ClaimedRow(r, w) = ClaimedRow(r, w)
  /\ \A r, n, t, s : Repository!ProgressRow(r, n, t, s) = ProgressRow(r, n, t, s)
  /\ \A rows, order, j : Repository!Requeued(rows, order, j) = Requeued(rows, order, j)
  /\ \A rows, order, l : Repository!ClaimNext(rows, order, l) = ClaimNext(rows, order, l)
<1>1. /\ Repository!NoRow = NoRow /\ Repository!CreatedRow = CreatedRow
      /\ Repository!Stage = Stage
  BY DEF Repository!NoRow, NoRow, Repository!CreatedRow, CreatedRow, Repository!Stage, Stage
<1>2. \A r : /\ Repository!Retryable(r) <=> Retryable(r)
             /\ Repository!RetriedRow(r) = RetriedRow(r)
             /\ Repository!FailedRow(r) = FailedRow(r)
             /\ Repository!SucceededRow(r) = SucceededRow(r)
  BY DEF Repository!Retryable, Retryable, Repository!RetriedRow, RetriedRow,
         Repository!FailedRow, FailedRow, Repository!SucceededRow, SucceededRow
<1>3. \A r, w : Repository!ClaimedRow(r, w) = ClaimedRow(r, w)
  BY DEF Repository!ClaimedRow, ClaimedRow
<1>4. \A r, n, t, s : Repository!ProgressRow(r, n, t, s) = ProgressRow(r, n, t, s)
  BY DEF Repository!ProgressRow, ProgressRow
<1>5. \A rows, order, j : Repository!Requeued(rows, order, j) = Requeued(rows, order, j)
  BY DEF Repository!Requeued, Requeued
<1>6. \A r : Repository!Reclaimable(r) <=> Reclaimable(r)
  BY DEF Repository!Reclaimable, Reclaimable
<1>7. \A rows, order, l : Repository!ClaimNext(rows, order, l) = ClaimNext(rows, order, l)
  BY <1>6 DEF Repository!ClaimNext, ClaimNext
<1> QED
  BY <1>1, <1>2, <1>3, <1>4, <1>5, <1>7

\* Every transaction of the program is one call of the repository or leaves its
\* table alone.
LEMMA NextCallsRepository ==
  ASSUME Inv, [Next]_vars
  PROVE  [Repository!Next]_(Repository!vars)
<1>0. /\ jobs \in [Jobs -> Row]
      /\ \A w \in Workers : pc[w] # "idle" => held[w] \in Jobs /\ jobs[held[w]].status # "absent"
  BY DEF Inv, Places, Rows, Working
<1>1. ASSUME NEW j \in Jobs, Upload(j) PROVE Repository!Next
  <2>1. Repository!Create(j)
    BY <1>1, SameRows DEF Upload, Repository!Create, Repository!Exists
  <2> QED
    BY <2>1 DEF Repository!Next
<1>2. ASSUME NEW j \in Jobs, RetryApi(j) PROVE Repository!Next
  <2>1. Repository!Retry(j)
    BY <1>2, SameRows DEF RetryApi, Repository!Retry
  <2> QED
    BY <2>1 DEF Repository!Next
<1>3. ASSUME NEW j \in Jobs, LeaseExpires(j) PROVE Repository!Next
  <2>1. Repository!LeaseExpires(j)
    BY <1>3 DEF LeaseExpires, Repository!LeaseExpires
  <2> QED
    BY <2>1 DEF Repository!Next
<1>4. ASSUME NEW w \in Workers, ClaimNextJob(w) PROVE Repository!Next
  <2>1. Locked \in SUBSET Jobs
    BY <1>0 DEF Locked
  <2>2. Repository!Claim(w)
    BY <1>4, <2>1, SameRows DEF ClaimNextJob, Repository!Claim
  <2> QED
    BY <2>2 DEF Repository!Next
<1>5. ASSUME NEW w \in Workers, Start(w) \/ Extract(w) PROVE Repository!Next
  <2>1. PICK n \in {0, 1} :
          jobs' = [jobs EXCEPT ![held[w]] = ProgressRow(@, n, TotalUnits, "text_extraction")]
    BY <1>5 DEF Start, Extract
  <2>2. n \in 0..TotalUnits /\ n <= TotalUnits
    BY UnitsAndStages, TotalUnitsAssumption
  <2>3. held[w] \in Jobs /\ jobs[held[w]].status # "absent" /\ UNCHANGED before
    BY <1>0, <1>5 DEF Start, Extract
  <2>4. Repository!Progress(held[w], n, TotalUnits, "text_extraction")
    BY <2>1, <2>2, <2>3, SameRows DEF Repository!Progress, Repository!Exists
  <2> QED
    BY <2>2, <2>3, <2>4, UnitsAndStages, SameRows DEF Repository!Next
<1>6. ASSUME NEW w \in Workers, CommitIndex(w) PROVE Repository!Next
  <2>1. /\ held[w] \in Jobs
        /\ jobs[held[w]].status # "absent"
        /\ jobs[held[w]].total = TotalUnits
    BY <1>0, <1>6 DEF CommitIndex, Inv, Working
  <2>2. jobs' = [jobs EXCEPT ![held[w]] = SucceededRow(jobs[held[w]])] /\ UNCHANGED before
    BY <1>0, <1>6, <2>1, LastProgressIsAbsorbed DEF CommitIndex
  <2>3. Repository!MarkSucceeded(held[w])
    BY <2>1, <2>2, SameRows DEF Repository!MarkSucceeded, Repository!Exists
  <2> QED
    BY <2>1, <2>3 DEF Repository!Next
<1>7. ASSUME NEW w \in Workers, FailJob(w) PROVE Repository!Next
  <2>1. held[w] \in Jobs /\ Repository!MarkFailed(held[w])
    BY <1>0, <1>7, SameRows DEF FailJob, Repository!MarkFailed, Repository!Exists
  <2> QED
    BY <2>1 DEF Repository!Next
<1>8. ASSUME NEW w \in Workers, BeginIndex(w) \/ FailFile(w) \/ Raise(w) \/ Crash(w)
      PROVE  UNCHANGED Repository!vars
  BY <1>8 DEF BeginIndex, FailFile, Raise, Crash, Repository!vars
<1>9. CASE UNCHANGED vars
  BY <1>9 DEF vars, Repository!vars
<1> QED
  BY <1>1, <1>2, <1>3, <1>4, <1>5, <1>6, <1>7, <1>8, <1>9 DEF Next, WorkerStep

\* PipelineWorker implements PipelineJobs: whatever is proved of any caller of the
\* repository (the budget, the lease and outcome columns, no stolen lease) holds for
\* the ingestion program, at any timing.
THEOREM RepositoryImplemented == Spec => ImplementsRepository
<1>1. Init => Repository!Init
  BY SameRows DEF Init, Repository!Init
<1>2. Inv /\ [Next]_vars => [Repository!Next]_(Repository!vars)
  BY NextCallsRepository
<1> QED
  BY <1>1, <1>2, InvHolds, PTL DEF Spec, ImplementsRepository, Repository!Spec

-------------------------------------------------------------------------------
(* Jobs whose lease outlasts the work on them *)

\* The holder of a job is the owner of its lease, and the lease has not run out.
Owned ==
  \A w \in Workers :
    held[w] \in Jobs \ overrun =>
      /\ jobs[held[w]].status = "running"
      /\ jobs[held[w]].owner = w
      /\ jobs[held[w]].lease = "live"

\* Between the two transactions of _fail_claimed_job the file has failed already.
FailedFirst ==
  \A w \in Workers :
    pc[w] = "file_failed" /\ held[w] \notin overrun => file[held[w]] = "failed"

TimelyInv == Inv /\ Owned /\ OutcomesAgree /\ FailedFirst

\* The lease columns and the progress columns a statement writes or leaves alone.
LEMMA LeaseAndProgress ==
  ASSUME NEW r \in Row, NEW w, NEW n \in Nat
  PROVE  /\ ClaimedRow(r, w).owner = w /\ ClaimedRow(r, w).lease = "live"
         /\ ProgressRow(r, n, TotalUnits, "text_extraction").owner = r.owner
         /\ ProgressRow(r, n, TotalUnits, "text_extraction").lease = r.lease
         /\ r.total = TotalUnits =>
              /\ SucceededRow(r).stage = "completed"
              /\ SucceededRow(r).done = TotalUnits
  BY TotalUnitsAssumption DEF Row, ClaimedRow, ProgressRow, SucceededRow

\* The history variable only grows.
LEMMA OverrunGrows == [Next]_vars => overrun \subseteq overrun'
  BY DEF Next, vars, Upload, RetryApi, LeaseExpires, WorkerStep, ClaimNextJob, Start,
         Extract, BeginIndex, CommitIndex, FailFile, FailJob, Raise, Crash

\* The claim query offers no job a worker holds in time.
LEMMA ClaimedWasFree ==
  ASSUME Owned, NEW j \in ClaimNext(jobs, before, Locked),
         NEW u \in Workers, held[u] \in Jobs \ overrun
  PROVE  held[u] # j
<1>1. j \in Jobs /\ (jobs[j].status = "queued" \/ jobs[j].lease = "expired")
  BY DEF ClaimNext, Reclaimable
<1> QED
  BY <1>1 DEF Owned

\* Two holders of one job would both be its owner.
LEMMA HoldersDiffer ==
  ASSUME Owned, NEW u \in Workers, NEW w \in Workers, u # w, held[u] \in Jobs \ overrun
  PROVE  held[u] # held[w]
  BY DEF Owned

LEMMA NextOwned ==
  ASSUME Inv, Owned, [Next]_vars
  PROVE  Owned'
<1> SUFFICES ASSUME NEW u \in Workers, held'[u] \in Jobs \ overrun'
             PROVE  /\ jobs'[held'[u]].status = "running"
                    /\ jobs'[held'[u]].owner = u
                    /\ jobs'[held'[u]].lease = "live"
  BY DEF Owned
<1> DEFINE Goal == /\ jobs'[held'[u]].status = "running"
                   /\ jobs'[held'[u]].owner = u
                   /\ jobs'[held'[u]].lease = "live"
<1>0. /\ jobs \in [Jobs -> Row]
      /\ held \in [Workers -> Jobs \union {NoJob}]
      /\ held'[u] \in Jobs \ overrun
  BY OverrunGrows DEF Inv, Places, Rows
<1>1. ASSUME held'[u] = held[u], jobs'[held[u]] = jobs[held[u]] PROVE Goal
  BY <1>0, <1>1 DEF Owned
<1>2. ASSUME NEW j \in Jobs, Upload(j) \/ RetryApi(j) \/ LeaseExpires(j) PROVE Goal
  <2>1. held' = held /\ held[u] # j
    BY <1>0, <1>2 DEF Upload, RetryApi, LeaseExpires, Retryable, Owned
  <2>2. jobs'[held[u]] = jobs[held[u]]
    BY <1>2, <1>0, <2>1 DEF Upload, RetryApi, LeaseExpires
  <2> QED
    BY <1>1, <2>1, <2>2
<1>3. ASSUME NEW w \in Workers, ClaimNextJob(w) PROVE Goal
  <2>1. PICK j \in ClaimNext(jobs, before, Locked) :
          /\ jobs' = [jobs EXCEPT ![j] = ClaimedRow(@, w)]
          /\ held' = [held EXCEPT ![w] = j]
    BY <1>3 DEF ClaimNextJob
  <2>2. j \in Jobs
    BY ClaimableHasAttempt DEF Inv, Rows
  <2>3. CASE u = w
    <3>1. held'[u] = j /\ jobs'[j] = ClaimedRow(jobs[j], w)
      BY <1>0, <2>1, <2>2, <2>3
    <3> QED
      BY <1>0, <2>2, <2>3, <3>1, RowColumns, LeaseAndProgress
  <2>4. CASE u # w
    <3>1. held'[u] = held[u]
      BY <1>0, <2>1, <2>4
    <3>2. held[u] # j
      BY <1>0, <2>1, <3>1, ClaimedWasFree
    <3> QED
      BY <1>0, <1>1, <2>1, <2>2, <3>1, <3>2
  <2> QED
    BY <2>3, <2>4
<1>4. ASSUME NEW w \in Workers, Start(w) \/ Extract(w) PROVE Goal
  <2>1. PICK n \in {0, 1} :
          jobs' = [jobs EXCEPT ![held[w]] = ProgressRow(@, n, TotalUnits, "text_extraction")]
    BY <1>4 DEF Start, Extract
  <2>2. held[u] \in Jobs /\ held' = held
    BY <1>0, <1>4 DEF Start, Extract
  <2>3. \/ jobs'[held[u]] = jobs[held[u]]
        \/ jobs'[held[u]] = ProgressRow(jobs[held[u]], n, TotalUnits, "text_extraction")
    BY <1>0, <2>1, <2>2
  <2>4. jobs[held[u]] \in Row
    BY <1>0, <2>2
  <2> QED
    BY <1>0, <1>1, <2>2, <2>3, <2>4, RowColumns, LeaseAndProgress DEF Owned
<1>5. ASSUME NEW w \in Workers, CommitIndex(w) \/ FailJob(w) PROVE Goal
  <2>1. u # w /\ held'[u] = held[u]
    BY <1>0, <1>5, NoJobAssumption DEF CommitIndex, FailJob, Leave
  <2>2. held[u] # held[w]
    BY <1>0, <2>1, HoldersDiffer
  <2>3. jobs'[held[u]] = jobs[held[u]]
    BY <1>0, <1>5, <2>1, <2>2 DEF CommitIndex, FailJob
  <2> QED
    BY <1>1, <2>1, <2>3
<1>6. ASSUME NEW w \in Workers, BeginIndex(w) \/ FailFile(w) \/ Raise(w) \/ Crash(w)
      PROVE  Goal
  <2>1. jobs' = jobs /\ held'[u] = held[u]
    BY <1>0, <1>6, NoJobAssumption DEF BeginIndex, FailFile, Raise, Crash, Leave
  <2> QED
    BY <1>1, <2>1
<1>7. CASE UNCHANGED vars
  BY <1>1, <1>7 DEF vars
<1> QED
  BY <1>2, <1>3, <1>4, <1>5, <1>6, <1>7 DEF Next, WorkerStep

\* The rows of a job and its file change together, or the file first.
LEMMA NextOutcomes ==
  ASSUME TimelyInv, [Next]_vars, NEW j \in Jobs \ overrun'
  PROVE  /\ jobs'[j].status = "succeeded" =>
              /\ file'[j] = "succeeded"
              /\ jobs'[j].stage = "completed"
              /\ jobs'[j].done = TotalUnits
         /\ jobs'[j].status = "failed" => file'[j] = "failed"
<1> DEFINE Goal ==
      /\ jobs'[j].status = "succeeded" =>
           /\ file'[j] = "succeeded"
           /\ jobs'[j].stage = "completed"
           /\ jobs'[j].done = TotalUnits
      /\ jobs'[j].status = "failed" => file'[j] = "failed"
<1>0. /\ jobs \in [Jobs -> Row]
      /\ file \in [Jobs -> ParseStatus]
      /\ \A w \in Workers : pc[w] # "idle" => held[w] \in Jobs
      /\ j \in Jobs \ overrun
  BY OverrunGrows DEF TimelyInv, Inv, Places, Rows
<1>1. ASSUME jobs'[j] = jobs[j], file'[j] = file[j] PROVE Goal
  BY <1>0, <1>1 DEF TimelyInv, OutcomesAgree
<1>2. ASSUME jobs'[j].status \in {"queued", "running"} PROVE Goal
  BY <1>2
<1>3. ASSUME NEW k \in Jobs, Upload(k) \/ RetryApi(k) PROVE Goal
  <2>1. jobs'[k].status = "queued"
    BY <1>0, <1>3, RowColumns DEF Upload, RetryApi, CreatedRow, NoRow
  <2> QED
    BY <1>0, <1>1, <1>2, <1>3, <2>1 DEF Upload, RetryApi
<1>4. ASSUME NEW k \in Jobs, LeaseExpires(k) PROVE Goal
  <2>1. /\ jobs'[j].status = jobs[j].status
        /\ jobs'[j].stage = jobs[j].stage
        /\ jobs'[j].done = jobs[j].done
        /\ file' = file
    BY <1>0, <1>4 DEF LeaseExpires, Row
  <2> QED
    BY <1>0, <2>1 DEF TimelyInv, OutcomesAgree
<1>5. ASSUME NEW w \in Workers, ClaimNextJob(w) PROVE Goal
  <2>1. PICK k \in ClaimNext(jobs, before, Locked) :
          jobs' = [jobs EXCEPT ![k] = ClaimedRow(@, w)]
    BY <1>5 DEF ClaimNextJob
  <2>2. k \in Jobs
    BY ClaimableHasAttempt DEF TimelyInv, Inv, Rows
  <2>3. jobs'[k].status = "running"
    BY <1>0, <2>1, <2>2, RowColumns
  <2> QED
    BY <1>0, <1>1, <1>2, <1>5, <2>1, <2>2, <2>3 DEF ClaimNextJob
<1>6. ASSUME NEW w \in Workers, Start(w) \/ Extract(w) PROVE Goal
  <2>1. held[w] \in Jobs
    BY <1>0, <1>6 DEF Start, Extract
  <2>2. PICK n \in {0, 1} :
          jobs' = [jobs EXCEPT ![held[w]] = ProgressRow(@, n, TotalUnits, "text_extraction")]
    BY <1>6 DEF Start, Extract
  <2>3. CASE j = held[w]
    <3>1. jobs[j].status = "running"
      BY <1>0, <2>3 DEF TimelyInv, Owned
    <3>2. jobs'[j].status = "running"
      BY <1>0, <2>2, <2>3, <3>1, RowColumns
    <3> QED
      BY <1>2, <3>2
  <2>4. CASE j # held[w]
    BY <1>0, <1>1, <1>6, <2>1, <2>2, <2>4 DEF Start, Extract
  <2> QED
    BY <2>3, <2>4
<1>7. ASSUME NEW w \in Workers, CommitIndex(w) PROVE Goal
  <2>1. held[w] \in Jobs /\ jobs[held[w]].total = TotalUnits
    BY <1>0, <1>7 DEF CommitIndex, TimelyInv, Inv, Working
  <2> DEFINE p == ProgressRow(jobs[held[w]], TotalUnits, TotalUnits, "text_extraction")
  <2>2. p \in Row /\ p.total = TotalUnits
    <3>1. Sound(jobs[held[w]]) /\ jobs[held[w]] \in Row
      BY <2>1 DEF TimelyInv, Inv, Rows
    <3>2. Sound(p)
      BY <3>1, ProgressRowSound, UnitsAndStages
    <3> QED
      BY <3>1, <3>2, RowColumns, TotalUnitsAssumption DEF Sound
  <2>3. /\ SucceededRow(p).status = "succeeded"
        /\ SucceededRow(p).stage = "completed"
        /\ SucceededRow(p).done = TotalUnits
    BY <2>2, RowColumns, LeaseAndProgress
  <2> HIDE DEF p
  <2>4. /\ jobs' = [jobs EXCEPT ![held[w]] = SucceededRow(p)]
        /\ file' = [file EXCEPT ![held[w]] = "succeeded"]
    BY <1>7 DEF CommitIndex, p
  <2> QED
    BY <1>0, <1>1, <2>1, <2>3, <2>4
<1>8. ASSUME NEW w \in Workers, FailFile(w) PROVE Goal
  <2>1. CASE j = held[w]
    <3>1. jobs'[j].status = "running"
      BY <1>0, <1>8, <2>1 DEF FailFile, TimelyInv, Owned
    <3> QED
      BY <1>2, <3>1
  <2>2. CASE j # held[w]
    BY <1>0, <1>1, <1>8, <2>2 DEF FailFile
  <2> QED
    BY <2>1, <2>2
<1>9. ASSUME NEW w \in Workers, FailJob(w) PROVE Goal
  <2>1. CASE j = held[w]
    <3>1. file[j] = "failed"
      BY <1>0, <1>9, <2>1 DEF FailJob, TimelyInv, FailedFirst
    <3>2. jobs'[j].status = "failed" /\ file'[j] = "failed"
      BY <1>0, <1>9, <2>1, <3>1, RowColumns DEF FailJob
    <3> QED
      BY <3>2
  <2>2. CASE j # held[w]
    BY <1>0, <1>1, <1>9, <2>2 DEF FailJob
  <2> QED
    BY <2>1, <2>2
<1>10. ASSUME NEW w \in Workers, BeginIndex(w) \/ Raise(w) \/ Crash(w) PROVE Goal
  BY <1>1, <1>10 DEF BeginIndex, Raise, Crash
<1>11. CASE UNCHANGED vars
  BY <1>1, <1>11 DEF vars
<1> QED
  BY <1>3, <1>4, <1>5, <1>6, <1>7, <1>8, <1>9, <1>10, <1>11 DEF Next, WorkerStep

\* Nobody writes the file of a worker that has marked it failed.
LEMMA NextFailedFirst ==
  ASSUME TimelyInv, [Next]_vars
  PROVE  FailedFirst'
<1> SUFFICES ASSUME NEW u \in Workers, pc'[u] = "file_failed", held'[u] \notin overrun'
             PROVE  file'[held'[u]] = "failed"
  BY DEF FailedFirst
<1>0. /\ pc \in [Workers -> Trying \union {"idle", "failing", "file_failed"}]
      /\ held \in [Workers -> Jobs \union {NoJob}]
      /\ file \in [Jobs -> ParseStatus]
      /\ pc[u] # "idle" => held[u] \in Jobs
      /\ held'[u] \notin overrun
  BY OverrunGrows DEF TimelyInv, Inv, Places
<1>1. ASSUME pc[u] = "file_failed", held'[u] = held[u], file'[held[u]] = file[held[u]]
      PROVE  file'[held'[u]] = "failed"
  BY <1>0, <1>1 DEF TimelyInv, FailedFirst
<1>2. ASSUME NEW j \in Jobs, Upload(j) \/ RetryApi(j) \/ LeaseExpires(j)
      PROVE  file'[held'[u]] = "failed"
  BY <1>1, <1>2 DEF Upload, RetryApi, LeaseExpires
<1>3. CASE FailFile(u)
  BY <1>0, <1>3 DEF FailFile
<1>4. ASSUME WorkerStep(u) \/ Raise(u) \/ Crash(u)
      PROVE  FailFile(u)
  BY <1>0, <1>4 DEF WorkerStep, ClaimNextJob, Start, Extract, BeginIndex, CommitIndex,
                    FailJob, Raise, Crash, Goto, Leave
<1>5. ASSUME NEW w \in Workers, w # u, WorkerStep(w) \/ Raise(w) \/ Crash(w)
      PROVE  file'[held'[u]] = "failed"
  <2>1. pc[u] = "file_failed" /\ held'[u] = held[u]
    BY <1>0, <1>5 DEF WorkerStep, ClaimNextJob, Start, Extract, BeginIndex, CommitIndex,
                      FailFile, FailJob, Raise, Crash, Goto, Leave
  <2>2. held[u] # held[w]
    BY <1>0, <1>5, <2>1, HoldersDiffer DEF TimelyInv
  <2>3. \/ UNCHANGED file
        \/ \E s \in ParseStatus : file' = [file EXCEPT ![held[w]] = s]
    BY <1>5 DEF WorkerStep, ClaimNextJob, Start, Extract, BeginIndex, CommitIndex,
                FailFile, FailJob, Raise, Crash, ParseStatus
  <2>4. file'[held[u]] = file[held[u]]
    BY <1>0, <2>1, <2>2, <2>3
  <2> QED
    BY <1>1, <2>1, <2>4
<1>6. CASE UNCHANGED vars
  BY <1>1, <1>6 DEF vars
<1> QED
  BY <1>2, <1>3, <1>4, <1>5, <1>6 DEF Next

LEMMA TimelyInvHolds == Spec => []TimelyInv
<1>1. Init => TimelyInv
  <2> SUFFICES ASSUME Init PROVE TimelyInv
    OBVIOUS
  <2>1. Owned /\ OutcomesAgree /\ FailedFirst
    BY NoJobAssumption DEF Init, Owned, OutcomesAgree, FailedFirst, NoRow
  <2> QED
    BY <2>1, InitInv DEF TimelyInv
<1>2. TimelyInv /\ [Next]_vars => TimelyInv'
  <2> SUFFICES ASSUME TimelyInv, [Next]_vars PROVE TimelyInv'
    OBVIOUS
  <2>1. Inv'
    BY NextInv DEF TimelyInv
  <2>2. Owned'
    BY NextOwned DEF TimelyInv
  <2>3. OutcomesAgree'
    BY NextOutcomes DEF OutcomesAgree
  <2> QED
    BY <2>1, <2>2, <2>3, NextFailedFirst DEF TimelyInv
<1> QED
  BY <1>1, <1>2, PTL DEF Spec

\* A worker whose lease lasts is the lease owner of a running job: no claim, retry
\* or late result settles or takes over the job under it, whatever happens to other
\* jobs.
THEOREM HolderIsOwnerHolds == Spec => []HolderIsOwner
<1>1. TimelyInv => HolderIsOwner
  BY DEF TimelyInv, Owned, HolderIsOwner
<1> QED
  BY <1>1, TimelyInvHolds, PTL

\* The row of a job whose leases lasted and the row of its file agree on every
\* outcome, although a failure writes them in two transactions.
THEOREM OutcomesAgreeHold == Spec => []OutcomesAgree
<1>1. TimelyInv => OutcomesAgree
  BY DEF TimelyInv
<1> QED
  BY <1>1, TimelyInvHolds, PTL

-------------------------------------------------------------------------------
(* The corpus and the job *)

\* A job in the corpus was claimed.  While it is in time, or was claimed only once,
\* it is reported succeeded, and in the second case nobody works on it any more.
Reported ==
  \A j \in Jobs :
    /\ jobs[j].status = "succeeded" => chunked[j]
    /\ chunked[j] =>
         /\ jobs[j].status # "absent"
         /\ jobs[j].attempts > 0
         /\ j \notin overrun => jobs[j].status = "succeeded"
         /\ jobs[j].attempts = 1 => jobs[j].status = "succeeded" /\ Holder(j) = {}

ReportedInv == CountInv /\ Owned /\ Reported

\* A worker of a job that spent one attempt is its only worker.
LEMMA FirstHolder ==
  ASSUME Counted, NEW j \in Jobs, NEW w \in Holder(j), jobs[j].attempts \in Nat
  PROVE  /\ jobs[j].attempts > 0
         /\ jobs[j].attempts = 1 => Holder(j) = {w}
<1>1. /\ IsFiniteSet(Holder(j)) /\ {w} \subseteq Holder(j)
      /\ Cardinality(Holder(j)) <= jobs[j].attempts
      /\ Cardinality(Holder(j)) \in Nat
  BY FS_CardinalityType DEF Counted
<1>2. /\ Cardinality({w}) = 1 /\ Cardinality({w}) <= Cardinality(Holder(j))
      /\ Cardinality({w}) = Cardinality(Holder(j)) => {w} = Holder(j)
  BY <1>1, FS_Singleton, FS_Subset
<1> QED
  BY <1>1, <1>2

LEMMA NextReported ==
  ASSUME ReportedInv, [Next]_vars, NEW j \in Jobs, chunked'[j]
  PROVE  /\ jobs'[j].status # "absent"
         /\ jobs'[j].attempts > 0
         /\ j \notin overrun' => jobs'[j].status = "succeeded"
         /\ jobs'[j].attempts = 1 => jobs'[j].status = "succeeded" /\ Holder(j)' = {}
<1> DEFINE Goal ==
      /\ jobs'[j].status # "absent"
      /\ jobs'[j].attempts > 0
      /\ j \notin overrun' => jobs'[j].status = "succeeded"
      /\ jobs'[j].attempts = 1 => jobs'[j].status = "succeeded" /\ Holder(j)' = {}
<1>0. /\ Inv /\ Owned /\ Counted
      /\ \A w \in Workers : pc[w] # "idle" => held[w] \in Jobs
      /\ jobs \in [Jobs -> Row] /\ jobs[j] \in Row /\ jobs[j].attempts \in Nat
      /\ held \in [Workers -> Jobs \union {NoJob}]
      /\ overrun \subseteq overrun'
  BY MaxAttemptsAssumption, OverrunGrows
     DEF ReportedInv, CountInv, Inv, Places, Rows, Row
<1>1. ASSUME chunked[j]
      PROVE  /\ jobs[j].status # "absent"
             /\ jobs[j].attempts > 0
             /\ j \notin overrun => jobs[j].status = "succeeded"
             /\ jobs[j].attempts = 1 => jobs[j].status = "succeeded" /\ Holder(j) = {}
  BY <1>1 DEF ReportedInv, Reported
\* Nothing of j changes but its workers leave.
<1>2. ASSUME chunked[j], jobs'[j].status = jobs[j].status,
             jobs'[j].attempts = jobs[j].attempts, Holder(j)' \subseteq Holder(j)
      PROVE  Goal
  BY <1>0, <1>1, <1>2
\* A job with another status than succeeded, or with a worker, was claimed again.
<1>3. ASSUME chunked[j], jobs[j].status # "succeeded" \/ (Holder(j) # {} /\ j \in overrun),
             jobs'[j].status # "absent",
             jobs'[j].attempts \in {jobs[j].attempts, jobs[j].attempts + 1}
      PROVE  Goal
  BY <1>0, <1>1, <1>3
<1>4. ASSUME NEW k \in Jobs, Upload(k) PROVE Goal
  <2>1. chunked[j] /\ held' = held /\ j # k
    BY <1>1, <1>4 DEF Upload
  <2>2. jobs'[j] = jobs[j]
    BY <1>0, <1>4, <2>1 DEF Upload
  <2> QED
    BY <1>2, <2>1, <2>2 DEF Holder
<1>5. ASSUME NEW k \in Jobs, RetryApi(k) PROVE Goal
  <2>1. chunked[j] /\ held' = held /\ jobs' = [jobs EXCEPT ![k] = RetriedRow(jobs[k])]
    BY <1>5 DEF RetryApi
  <2>2. CASE j = k
    <3>1. jobs[j].status # "succeeded"
      BY <1>5, <2>2 DEF RetryApi, Retryable
    <3>2. jobs'[j].status = "queued" /\ jobs'[j].attempts = jobs[j].attempts
      BY <1>0, <2>1, <2>2, RowColumns, Attempts
    <3> QED
      BY <1>3, <2>1, <3>1, <3>2
  <2>3. CASE j # k
    BY <1>0, <1>2, <2>1, <2>3 DEF Holder
  <2> QED
    BY <2>2, <2>3
<1>6. ASSUME NEW k \in Jobs, LeaseExpires(k) PROVE Goal
  <2>1. chunked[j] /\ held' = held /\ jobs' = [jobs EXCEPT ![k] = [jobs[k] EXCEPT !.lease = "expired"]]
    BY <1>6 DEF LeaseExpires
  <2>2. jobs'[j].status = jobs[j].status /\ jobs'[j].attempts = jobs[j].attempts
    BY <1>0, <2>1 DEF Row
  <2> QED
    BY <1>2, <2>1, <2>2 DEF Holder
<1>7. ASSUME NEW w \in Workers, ClaimNextJob(w) PROVE Goal
  <2>1. PICK k \in ClaimNext(jobs, before, Locked) :
          /\ jobs' = [jobs EXCEPT ![k] = ClaimedRow(jobs[k], w)]
          /\ held' = [held EXCEPT ![w] = k]
    BY <1>7 DEF ClaimNextJob
  <2>2. k \in Jobs /\ jobs[k].status \in {"queued", "running"}
    BY <1>0, ClaimableHasAttempt DEF Inv, Rows
  <2>3. chunked[j]
    BY <1>7 DEF ClaimNextJob
  <2>4. CASE j = k
    <3>1. jobs'[j].status = "running" /\ jobs'[j].attempts = jobs[j].attempts + 1
      BY <1>0, <2>1, <2>2, <2>4, RowColumns, Attempts
    <3> QED
      BY <1>3, <2>2, <2>3, <2>4, <3>1
  <2>5. CASE j # k
    BY <1>0, <1>2, <2>1, <2>2, <2>3, <2>5 DEF Holder
  <2> QED
    BY <2>4, <2>5
<1>8. ASSUME NEW w \in Workers, Start(w) \/ Extract(w) PROVE Goal
  <2>1. held[w] \in Jobs /\ held' = held /\ chunked[j]
    BY <1>0, <1>8 DEF Start, Extract
  <2>2. PICK n \in {0, 1} : jobs' = [jobs EXCEPT ![held[w]] =
                              ProgressRow(jobs[held[w]], n, TotalUnits, "text_extraction")]
    BY <1>8 DEF Start, Extract
  <2>3. jobs'[j].status = jobs[j].status /\ jobs'[j].attempts = jobs[j].attempts
    BY <1>0, <2>1, <2>2 DEF Row, ProgressRow
  <2> QED
    BY <1>2, <2>1, <2>3 DEF Holder
<1>9. ASSUME NEW w \in Workers, CommitIndex(w) PROVE Goal
  <2>1. held[w] \in Jobs /\ held' = [held EXCEPT ![w] = NoJob] /\ jobs[held[w]] \in Row
    BY <1>0, <1>9 DEF CommitIndex, Leave
  <2> DEFINE p == ProgressRow(jobs[held[w]], TotalUnits, TotalUnits, "text_extraction")
  <2>2. p \in Row /\ p.attempts = jobs[held[w]].attempts
    BY <1>0, <2>1, Attempts, ProgressRowSound, UnitsAndStages, TotalUnitsAssumption
       DEF Sound, Inv, Rows
  <2>3. /\ SucceededRow(p).status = "succeeded"
        /\ SucceededRow(p).attempts = jobs[held[w]].attempts
    BY <2>2, RowColumns, Attempts
  <2>4. jobs' = [jobs EXCEPT ![held[w]] = SucceededRow(p)]
    BY <1>9 DEF CommitIndex
  <2> HIDE DEF p
  <2>5. CASE j = held[w]
    <3>1. w \in Holder(j)
      BY <2>5 DEF Holder
    <3>2. jobs[j].attempts > 0 /\ (jobs[j].attempts = 1 => Holder(j) = {w})
      BY <1>0, <3>1, FirstHolder
    <3>3. Holder(j)' = Holder(j) \ {w}
      BY <1>0, <2>1, <2>5, NoJobAssumption DEF Holder
    <3>4. jobs'[j].status = "succeeded" /\ jobs'[j].attempts = jobs[j].attempts
      BY <1>0, <2>3, <2>4, <2>5
    <3> QED
      BY <3>2, <3>3, <3>4
  <2>6. CASE j # held[w]
    <3>1. chunked[j] /\ jobs'[j] = jobs[j]
      BY <1>0, <1>9, <2>4, <2>6 DEF CommitIndex, Inv, Places
    <3>2. Holder(j)' \subseteq Holder(j)
      BY <1>0, <2>1, NoJobAssumption DEF Holder
    <3> QED
      BY <1>2, <3>1, <3>2
  <2> QED
    BY <2>5, <2>6
<1>10. ASSUME NEW w \in Workers, FailJob(w) PROVE Goal
  <2>1. /\ held[w] \in Jobs /\ held' = [held EXCEPT ![w] = NoJob] /\ chunked[j]
        /\ jobs' = [jobs EXCEPT ![held[w]] = FailedRow(jobs[held[w]])]
    BY <1>0, <1>10 DEF FailJob, Leave
  <2>2. Holder(j)' \subseteq Holder(j)
    BY <1>0, <2>1, NoJobAssumption DEF Holder
  <2>3. CASE j = held[w]
    <3>1. w \in Holder(j)
      BY <2>3 DEF Holder
    <3>2. jobs[j].status # "succeeded" \/ j \in overrun
      BY <1>0, <2>3 DEF Owned
    <3>3. jobs'[j].status = "failed" /\ jobs'[j].attempts = jobs[j].attempts
      BY <1>0, <2>1, <2>3, RowColumns, Attempts
    <3> QED
      BY <1>3, <2>1, <3>1, <3>2, <3>3
  <2>4. CASE j # held[w]
    BY <1>0, <1>2, <2>1, <2>2, <2>4
  <2> QED
    BY <2>3, <2>4
<1>11. ASSUME NEW w \in Workers, BeginIndex(w) \/ FailFile(w) \/ Raise(w) \/ Crash(w)
       PROVE  Goal
  <2>1. jobs' = jobs /\ chunked[j] /\ \A u \in Workers : held'[u] \in {held[u], NoJob}
    BY <1>0, <1>11 DEF BeginIndex, FailFile, Raise, Crash, Leave
  <2>2. Holder(j)' \subseteq Holder(j)
    BY <2>1, NoJobAssumption DEF Holder
  <2> QED
    BY <1>2, <2>1, <2>2
<1>12. CASE UNCHANGED vars
  BY <1>2, <1>12 DEF vars, Holder
<1> QED
  BY <1>4, <1>5, <1>6, <1>7, <1>8, <1>9, <1>10, <1>11, <1>12 DEF Next, WorkerStep

\* What is in the corpus is reported succeeded, and what is reported succeeded is in
\* the corpus, for every job that no second worker took over from a late one.
THEOREM CorpusIsReportedHolds == Spec => []CorpusIsReported
<1>1. Init => ReportedInv
  <2> SUFFICES ASSUME Init PROVE ReportedInv
    OBVIOUS
  <2>1. CountInv
    BY InitCounted
  <2>2. Owned /\ Reported
    BY NoJobAssumption DEF Init, Owned, Reported, NoRow
  <2> QED
    BY <2>1, <2>2 DEF ReportedInv
<1>2. ReportedInv /\ [Next]_vars => ReportedInv'
  <2> SUFFICES ASSUME ReportedInv, [Next]_vars PROVE ReportedInv'
    OBVIOUS
  <2>1. CountInv' /\ Owned'
    BY NextInv, NextCounted, NextOwned DEF ReportedInv, CountInv
  <2>2. ASSUME NEW j \in Jobs, jobs'[j].status = "succeeded" PROVE chunked'[j]
    BY <2>2, RowStep DEF ReportedInv, CountInv, Reported
  <2>3. Reported'
    BY <2>2, NextReported DEF Reported
  <2> QED
    BY <2>1, <2>3 DEF ReportedInv
<1>3. ReportedInv => CorpusIsReported
  <2> SUFFICES ASSUME ReportedInv, NEW j \in Jobs
               PROVE  \/ chunked[j] <=> jobs[j].status = "succeeded"
                      \/ chunked[j] /\ j \in overrun /\ jobs[j].attempts > 1
    BY DEF CorpusIsReported
  <2>1. jobs[j].attempts \in Nat /\ chunked[j] \in BOOLEAN
    BY MaxAttemptsAssumption DEF ReportedInv, CountInv, Inv, Places, Rows, Row
  <2> QED
    BY <2>1 DEF ReportedInv, Reported
<1> QED
  BY <1>1, <1>2, <1>3, PTL DEF Spec

-------------------------------------------------------------------------------
(* The queue *)

\* A job_id without a row: nothing is counted for it.
Fresh == \A j \in Jobs : jobs[j].status = "absent" => jobs[j].attempts = 0

QueueInv == TimelyInv /\ Fresh

\* In time, a job has at most one holder.
LEMMA OnlyHolder ==
  ASSUME TimelyInv, overrun = {}, NEW w \in Workers, held[w] \in Jobs
  PROVE  /\ Holder(held[w]) = {w}
         /\ jobs[held[w]].status = "running" /\ jobs[held[w]].lease = "live"
         /\ QueuePlace[held[w]] = "working" /\ QueueWorker[held[w]] = w
<1>1. /\ Owned /\ held[w] \in Jobs \ overrun
  BY DEF TimelyInv
<1>2. jobs[held[w]].status = "running" /\ jobs[held[w]].lease = "live"
  BY <1>1 DEF Owned
<1>3. \A u \in Workers : held[u] = held[w] => u = w
  BY <1>1 DEF Owned
<1>4. Holder(held[w]) = {w}
  BY <1>3 DEF Holder
<1>5. AnyOf({w}) = w
  BY DEF AnyOf
<1> QED
  BY <1>2, <1>4, <1>5 DEF QueuePlace, QueueWorker

\* An item without a holder.
LEMMA NoHolder ==
  ASSUME NEW j \in Jobs, \A w \in Workers : held[w] # j
  PROVE  /\ Holder(j) = {} /\ QueueWorker[j] = NoOne
         /\ QueuePlace[j] = CASE jobs[j].status = "absent" -> "absent"
                              [] jobs[j].status = "queued" -> "waiting"
                              [] jobs[j].status = "running" -> "lost"
                              [] jobs[j].status = "succeeded" -> "done"
                              [] OTHER -> "failed"
<1>1. Holder(j) = {}
  BY DEF Holder
<1> QED
  BY <1>1 DEF QueuePlace, QueueWorker

\* An item whose job is the same to the queue.
LEMMA SameItem ==
  ASSUME NEW j \in Jobs, \A w \in Workers : held'[w] = j <=> held[w] = j
  PROVE  /\ QueueWorker'[j] = QueueWorker[j]
         /\ jobs'[j].status = jobs[j].status => QueuePlace'[j] = QueuePlace[j]
         /\ jobs'[j].attempts = jobs[j].attempts => QueueTries'[j] = QueueTries[j]
<1>1. Holder(j)' = Holder(j)
  BY DEF Holder
<1>3. QueueWorker'[j] = QueueWorker[j]
  BY <1>1 DEF QueueWorker
<1>4. jobs'[j].status = jobs[j].status => QueuePlace'[j] = QueuePlace[j]
  BY <1>1 DEF QueuePlace
<1>5. jobs'[j].attempts = jobs[j].attempts => QueueTries'[j] = QueueTries[j]
  BY DEF QueueTries
<1> QED
  BY <1>3, <1>4, <1>5

\* One item changes, and the others are what they were.
LEMMA OneItem ==
  ASSUME NEW j \in Jobs,
         \A k \in Jobs \ {j} : /\ QueuePlace'[k] = QueuePlace[k]
                               /\ QueueWorker'[k] = QueueWorker[k]
                               /\ QueueTries'[k] = QueueTries[k]
  PROVE  /\ QueuePlace' = [QueuePlace EXCEPT ![j] = QueuePlace'[j]]
         /\ QueueWorker' = [QueueWorker EXCEPT ![j] = QueueWorker'[j]]
         /\ QueueTries' = [QueueTries EXCEPT ![j] = QueueTries'[j]]
         /\ QueueTries'[j] = QueueTries[j] => QueueTries' = QueueTries
         /\ QueueWorker'[j] = QueueWorker[j] => QueueWorker' = QueueWorker
<1>1. /\ QueuePlace = [k \in Jobs |-> QueuePlace[k]]
      /\ QueueWorker = [k \in Jobs |-> QueueWorker[k]]
      /\ QueueTries = [k \in Jobs |-> QueueTries[k]]
      /\ QueuePlace' = [k \in Jobs |-> QueuePlace'[k]]
      /\ QueueWorker' = [k \in Jobs |-> QueueWorker'[k]]
      /\ QueueTries' = [k \in Jobs |-> QueueTries'[k]]
  BY DEF QueuePlace, QueueWorker, QueueTries
<1> QED
  BY <1>1

\* A step that writes one row and leaves the holders of the other jobs alone.
LEMMA OneRow ==
  ASSUME NEW j \in Jobs, NEW r, jobs \in [Jobs -> Row], jobs' = [jobs EXCEPT ![j] = r],
         \A k \in Jobs \ {j} : \A w \in Workers : held'[w] = k <=> held[w] = k
  PROVE  /\ jobs'[j] = r
         /\ QueuePlace' = [QueuePlace EXCEPT ![j] = QueuePlace'[j]]
         /\ QueueWorker' = [QueueWorker EXCEPT ![j] = QueueWorker'[j]]
         /\ QueueTries' = [QueueTries EXCEPT ![j] = r.attempts]
         /\ QueueTries[j] = jobs[j].attempts
         /\ r.attempts = jobs[j].attempts => QueueTries' = QueueTries
         /\ QueueWorker'[j] = QueueWorker[j] => QueueWorker' = QueueWorker
<1>1. jobs'[j] = r /\ \A k \in Jobs \ {j} : jobs'[k] = jobs[k]
  OBVIOUS
<1>2. \A k \in Jobs \ {j} : /\ QueuePlace'[k] = QueuePlace[k]
                            /\ QueueWorker'[k] = QueueWorker[k]
                            /\ QueueTries'[k] = QueueTries[k]
  <2> SUFFICES ASSUME NEW k \in Jobs \ {j}
               PROVE  /\ QueuePlace'[k] = QueuePlace[k]
                      /\ QueueWorker'[k] = QueueWorker[k]
                      /\ QueueTries'[k] = QueueTries[k]
    OBVIOUS
  <2>1. jobs'[k].status = jobs[k].status /\ jobs'[k].attempts = jobs[k].attempts
    BY <1>1
  <2> QED
    BY <2>1, SameItem
<1>3. QueueTries'[j] = r.attempts /\ QueueTries[j] = jobs[j].attempts
  BY <1>1 DEF QueueTries
<1> QED
  BY <1>1, <1>2, <1>3, OneItem

\* Steps the queue does not see.
LEMMA Unseen ==
  ASSUME held' = held, \A j \in Jobs : /\ jobs'[j].status = jobs[j].status
                                       /\ jobs'[j].attempts = jobs[j].attempts
  PROVE  UNCHANGED Queue!vars
<1>1. \A j \in Jobs : Holder(j)' = Holder(j)
  BY DEF Holder
<1>2. QueuePlace' = QueuePlace
  BY <1>1 DEF QueuePlace
<1>3. QueueWorker' = QueueWorker
  BY <1>1 DEF QueueWorker
<1>4. QueueTries' = QueueTries
  BY DEF QueueTries
<1> QED
  BY <1>2, <1>3, <1>4 DEF Queue!vars

\* A worker that settles or abandons its job finishes the item.
LEMMA Finished ==
  ASSUME QueueInv, overrun = {}, NEW w \in Workers, pc[w] # "idle", Leave(w),
         NEW r, jobs' = [jobs EXCEPT ![held[w]] = r], r.attempts = jobs[held[w]].attempts,
         r.status \in {"succeeded", "failed", "running"}
  PROVE  Queue!Next
<1>1. /\ held[w] \in Jobs /\ TimelyInv /\ jobs \in [Jobs -> Row]
      /\ held \in [Workers -> Jobs \union {NoJob}]
  BY HoldsJob DEF QueueInv, TimelyInv, Inv, Places, Rows
<1>2. /\ Holder(held[w]) = {w} /\ QueuePlace[held[w]] = "working" /\ QueueWorker[held[w]] = w
  BY <1>1, OnlyHolder
<1>3. held' = [held EXCEPT ![w] = NoJob]
  BY DEF Leave
<1> DEFINE j == held[w]
<1>4. \A u \in Workers : held'[u] # j
  BY <1>1, <1>2, <1>3, NoJobAssumption DEF Holder
<1>5. \A k \in Jobs \ {j} : \A u \in Workers : held'[u] = k <=> held[u] = k
  BY <1>1, <1>3, NoJobAssumption
<1>6. PICK k : k = j
  OBVIOUS
<1>7. /\ k \in Jobs /\ jobs'[k] = r
      /\ QueuePlace' = [QueuePlace EXCEPT ![k] = QueuePlace'[k]]
      /\ QueueWorker' = [QueueWorker EXCEPT ![k] = QueueWorker'[k]]
      /\ QueueTries' = QueueTries
  BY <1>1, <1>5, <1>6, OneRow
<1>8. Holder(k)' = {}
  BY <1>4, <1>6 DEF Holder
<1>9. QueueWorker'[k] = NoOne /\ QueuePlace'[k] \in {"done", "failed", "lost"}
  BY <1>7, <1>8 DEF QueueWorker, QueuePlace
<1>10. Queue!Finish(k)
  BY <1>2, <1>6, <1>7, <1>9 DEF Queue!Finish, Queue!Moved
<1> QED
  BY <1>7, <1>10 DEF Queue!Next

LEMMA NextQueue ==
  ASSUME QueueInv, [Next]_vars, overrun' = {}
  PROVE  [Queue!Next]_(Queue!vars)
<1>0. /\ TimelyInv /\ Inv /\ Places /\ jobs \in [Jobs -> Row] /\ overrun = {}
      /\ held \in [Workers -> Jobs \union {NoJob}]
      /\ \A j \in Jobs : jobs[j] \in Row
  BY OverrunGrows DEF QueueInv, TimelyInv, Inv, Places, Rows
<1>1. ASSUME NEW j \in Jobs, Upload(j) PROVE Queue!Next
  <2>1. /\ jobs[j].status = "absent" /\ jobs' = [jobs EXCEPT ![j] = CreatedRow]
        /\ held' = held
    BY <1>1 DEF Upload
  <2>2. /\ CreatedRow.attempts = 0 /\ CreatedRow.status = "queued"
        /\ jobs[j].attempts = 0
    BY <2>1 DEF CreatedRow, NoRow, QueueInv, Fresh
  <2>3. \A w \in Workers : held[w] # j
    BY <1>0, <2>1, OnlyHolder
  <2>4. /\ QueuePlace[j] = "absent" /\ QueueWorker[j] = NoOne
    BY <2>1, <2>3, NoHolder
  <2>5. jobs'[j].status = "queued" /\ Holder(j)' = {}
    BY <1>0, <2>1, <2>2, <2>3 DEF Holder
  <2>6. QueuePlace'[j] = "waiting" /\ QueueWorker'[j] = NoOne
    BY <2>5 DEF QueuePlace, QueueWorker
  <2>7. /\ QueuePlace' = [QueuePlace EXCEPT ![j] = "waiting"]
        /\ QueueWorker' = QueueWorker /\ QueueTries' = QueueTries
    BY <1>0, <2>1, <2>2, <2>4, <2>6, OneRow
  <2>8. Queue!Submit({j}, {})
    BY <2>4, <2>7 DEF Queue!Submit, QueuePlace, QueueWorker, QueueTries
  <2> QED
    BY <2>8 DEF Queue!Next
<1>2. ASSUME NEW j \in Jobs, RetryApi(j) PROVE Queue!Next
  <2>1. /\ jobs[j].status \in {"failed", "canceled"} /\ jobs[j].attempts < MaxAttempts
        /\ jobs' = [jobs EXCEPT ![j] = RetriedRow(jobs[j])] /\ held' = held
    BY <1>2 DEF RetryApi, Retryable
  <2>2. /\ RetriedRow(jobs[j]).attempts = jobs[j].attempts
        /\ RetriedRow(jobs[j]).status = "queued"
    BY <1>0, Attempts, RowColumns
  <2>3. \A w \in Workers : held[w] # j
    BY <1>0, <2>1, OnlyHolder
  <2>4. QueuePlace[j] = "failed" /\ QueueWorker[j] = NoOne
    BY <2>1, <2>3, NoHolder
  <2>5. jobs'[j].status = "queued" /\ Holder(j)' = {}
    BY <1>0, <2>1, <2>2, <2>3 DEF Holder
  <2>6. QueuePlace'[j] = "waiting" /\ QueueWorker'[j] = NoOne
    BY <2>5 DEF QueuePlace, QueueWorker
  <2>7. /\ QueuePlace' = [QueuePlace EXCEPT ![j] = "waiting"]
        /\ QueueWorker' = QueueWorker /\ QueueTries' = QueueTries
        /\ QueueTries[j] = jobs[j].attempts
    BY <1>0, <2>1, <2>2, <2>4, <2>6, OneRow
  <2>8. Queue!Resubmit(j)
    BY <2>1, <2>4, <2>7 DEF Queue!Resubmit, Queue!Moved
  <2> QED
    BY <2>8 DEF Queue!Next
<1>3. ASSUME NEW j \in Jobs, LeaseExpires(j) PROVE UNCHANGED Queue!vars
  <2>1. jobs' = [jobs EXCEPT ![j] = [jobs[j] EXCEPT !.lease = "expired"]] /\ held' = held
    BY <1>3 DEF LeaseExpires
  <2>2. \A k \in Jobs : /\ jobs'[k].status = jobs[k].status
                        /\ jobs'[k].attempts = jobs[k].attempts
    BY <1>0, <2>1 DEF Row
  <2> QED
    BY <2>1, <2>2, Unseen
<1>4. ASSUME NEW w \in Workers, ClaimNextJob(w) PROVE Queue!Next
  <2>1. PICK j \in ClaimNext(jobs, before, Locked) :
          /\ jobs' = [jobs EXCEPT ![j] = ClaimedRow(jobs[j], w)]
          /\ held' = [held EXCEPT ![w] = j]
    BY <1>4 DEF ClaimNextJob
  <2>2. j \in Jobs /\ jobs[j].attempts < MaxAttempts
    BY <1>0, ClaimableHasAttempt DEF Inv, Rows
  <2>3. jobs[j].status = "queued" \/ (jobs[j].status = "running" /\ jobs[j].lease = "expired")
    BY DEF ClaimNext, Reclaimable
  <2>4. \A u \in Workers : held[u] # j
    BY <1>0, <2>2, <2>3, OnlyHolder
  <2>5. QueuePlace[j] \in {"waiting", "lost"} /\ QueueTries[j] = jobs[j].attempts
    BY <2>2, <2>3, <2>4, NoHolder DEF QueueTries
  <2>6. held[w] = NoJob
    BY <1>0, <1>4 DEF ClaimNextJob, Places
  <2>7. Queue!Idle(w)
    <3> SUFFICES ASSUME NEW i \in Jobs PROVE QueueWorker[i] # w
      BY DEF Queue!Idle
    <3>1. CASE \E u \in Workers : held[u] = i
      <4>1. PICK u \in Workers : held[u] = i
        BY <3>1
      <4>2. QueueWorker[i] = u
        BY <1>0, <4>1, OnlyHolder
      <4> QED
        BY <2>6, <4>1, <4>2, NoJobAssumption
    <3>2. CASE \A u \in Workers : held[u] # i
      BY <3>2, NoHolder, WorkersAssumption
    <3> QED
      BY <3>1, <3>2
  <2>8. /\ ClaimedRow(jobs[j], w).attempts = jobs[j].attempts + 1
        /\ ClaimedRow(jobs[j], w).status = "running"
    BY <1>0, <2>2, Attempts, RowColumns
  <2>9. \A k \in Jobs \ {j} : \A u \in Workers : held'[u] = k <=> held[u] = k
    BY <1>0, <2>1, <2>2, <2>6, NoJobAssumption
  <2> DEFINE r == ClaimedRow(jobs[j], w)
  <2>10. /\ jobs'[j] = r
         /\ QueuePlace' = [QueuePlace EXCEPT ![j] = QueuePlace'[j]]
         /\ QueueWorker' = [QueueWorker EXCEPT ![j] = QueueWorker'[j]]
         /\ QueueTries' = [QueueTries EXCEPT ![j] = r.attempts]
    <3>1. jobs' = [jobs EXCEPT ![j] = r]
      BY <2>1
    <3> HIDE DEF r
    <3> QED
      BY <1>0, <2>2, <2>9, <3>1, OneRow
  <2>11. Holder(j)' = {w}
    BY <1>0, <2>1, <2>4 DEF Holder
  <2>12. AnyOf({w}) = w
    BY DEF AnyOf
  <2>13. QueuePlace'[j] = "working" /\ QueueWorker'[j] = w
    BY <2>2, <2>8, <2>10, <2>11, <2>12 DEF QueuePlace, QueueWorker
  <2>14. Queue!Assign(j, w)
    <3>1. QueueTries' = [QueueTries EXCEPT ![j] = QueueTries[j] + 1]
      BY <2>5, <2>8, <2>10
    <3> QED
      BY <2>2, <2>5, <2>7, <2>10, <2>13, <3>1 DEF Queue!Assign
  <2> QED
    BY <2>2, <2>14 DEF Queue!Next
<1>5. ASSUME NEW w \in Workers, Start(w) \/ Extract(w) PROVE UNCHANGED Queue!vars
  <2>1. held[w] \in Jobs
    BY <1>0, <1>5, HoldsJob DEF Start, Extract
  <2>2. PICK n \in {0, 1} : jobs' = [jobs EXCEPT ![held[w]] =
                              ProgressRow(jobs[held[w]], n, TotalUnits, "text_extraction")]
    BY <1>5 DEF Start, Extract
  <2>3. held' = held
    BY <1>5 DEF Start, Extract
  <2>4. \A k \in Jobs : /\ jobs'[k].status = jobs[k].status
                        /\ jobs'[k].attempts = jobs[k].attempts
    BY <1>0, <2>1, <2>2 DEF Row, ProgressRow
  <2> QED
    BY <2>3, <2>4, Unseen
<1>6. ASSUME NEW w \in Workers, CommitIndex(w) PROVE Queue!Next
  <2>1. held[w] \in Jobs /\ pc[w] # "idle" /\ Leave(w)
    BY <1>0, <1>6, HoldsJob DEF CommitIndex
  <2> DEFINE p == ProgressRow(jobs[held[w]], TotalUnits, TotalUnits, "text_extraction")
  <2>2. p \in Row /\ p.attempts = jobs[held[w]].attempts
    BY <1>0, <2>1, Attempts, ProgressRowSound, UnitsAndStages, TotalUnitsAssumption
       DEF Sound, Inv, Rows
  <2>3. jobs' = [jobs EXCEPT ![held[w]] = SucceededRow(p)]
    BY <1>6 DEF CommitIndex
  <2> HIDE DEF p
  <2>4. SucceededRow(p).attempts = jobs[held[w]].attempts /\ SucceededRow(p).status = "succeeded"
    BY <2>2, Attempts, RowColumns
  <2> QED
    BY <1>0, <2>1, <2>3, <2>4, Finished
<1>7. ASSUME NEW w \in Workers, FailJob(w) PROVE Queue!Next
  <2>1. held[w] \in Jobs /\ pc[w] # "idle" /\ Leave(w)
    BY <1>0, <1>7, HoldsJob DEF FailJob
  <2>2. jobs' = [jobs EXCEPT ![held[w]] = FailedRow(jobs[held[w]])]
    BY <1>7 DEF FailJob
  <2>3. /\ FailedRow(jobs[held[w]]).attempts = jobs[held[w]].attempts
        /\ FailedRow(jobs[held[w]]).status = "failed"
    BY <1>0, <2>1, Attempts, RowColumns
  <2> QED
    BY <1>0, <2>1, <2>2, <2>3, Finished
<1>8. ASSUME NEW w \in Workers, Crash(w) PROVE Queue!Next
  <2>1. pc[w] # "idle" /\ Leave(w) /\ jobs' = jobs
    BY <1>8 DEF Crash
  <2>2. held[w] \in Jobs
    BY <1>0, <2>1, HoldsJob
  <2>3. jobs[held[w]].status = "running"
    BY <1>0, <2>2, OnlyHolder
  <2>4. jobs' = [jobs EXCEPT ![held[w]] = jobs[held[w]]]
    BY <1>0, <2>1, <2>2
  <2> QED
    BY <1>0, <2>1, <2>2, <2>3, <2>4, Finished
<1>9. ASSUME NEW w \in Workers, BeginIndex(w) \/ FailFile(w) \/ Raise(w)
      PROVE  UNCHANGED Queue!vars
  BY <1>9, Unseen DEF BeginIndex, FailFile, Raise
<1>10. CASE UNCHANGED vars
  BY <1>10, Unseen DEF vars
<1> QED
  BY <1>1, <1>2, <1>3, <1>4, <1>5, <1>6, <1>7, <1>8, <1>9, <1>10 DEF Next, WorkerStep

LEMMA NextFresh == QueueInv /\ [Next]_vars => Fresh'
<1> SUFFICES ASSUME QueueInv, [Next]_vars, NEW j \in Jobs, jobs'[j].status = "absent"
             PROVE  jobs'[j].attempts = 0
  BY DEF Fresh
<1>0. Inv
  BY DEF QueueInv, TimelyInv
<1>1. jobs[j].status = "absent" /\ jobs[j].attempts = 0
  BY <1>0, RowStep DEF QueueInv, Fresh
<1>2. Holder(j) = {}
  BY <1>0, <1>1, NoJobAssumption DEF Holder, Inv, Working, Places
<1>3. CASE jobs'[j].attempts = jobs[j].attempts
  BY <1>1, <1>3
<1> QED
  BY <1>0, <1>1, <1>2, <1>3, AttemptsStep

\* As long as no lease runs out under a worker at work, ingestion is a queue that
\* hands every file to one worker at a time, at most MaxAttempts times: what the
\* leases, the locks and the two transactions of a failure are for.
THEOREM QueueImplemented == Spec => ImplementsQueue
<1>1. Init => Queue!Init /\ Fresh
  <2> SUFFICES ASSUME Init PROVE Queue!Init /\ Fresh
    OBVIOUS
  <2>1. \A j \in Jobs : Holder(j) = {} /\ jobs[j].status = "absent" /\ jobs[j].attempts = 0
    BY NoJobAssumption DEF Init, Holder, NoRow
  <2>2. QueuePlace = [j \in Jobs |-> "absent"]
    BY <2>1 DEF QueuePlace
  <2>3. QueueWorker = [j \in Jobs |-> NoOne] /\ QueueTries = [j \in Jobs |-> 0]
    BY <2>1 DEF QueueWorker, QueueTries
  <2> QED
    BY <2>1, <2>2, <2>3 DEF Queue!Init, Fresh
<1>2. QueueInv /\ [Next]_vars => Fresh'
  BY NextFresh
<1>3. QueueInv /\ [Next]_vars => [overrun' = {} => Queue!Next]_(Queue!vars)
  BY NextQueue
<1>4. QueueInv <=> TimelyInv /\ Fresh
  BY DEF QueueInv
<1> QED
  BY <1>1, <1>2, <1>3, <1>4, TimelyInvHolds, PTL DEF Spec, ImplementsQueue

===============================================================================
