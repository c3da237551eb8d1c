---------------------------- MODULE PipelineWorker ----------------------------
(***************************************************************************)
(* The ingestion program: uploads that create pipeline jobs                *)
(* (app/core/file_uploads.py), any number of workers that run              *)
(* process_next_markdown_pipeline_job (app/core/pipeline_worker.py) in a   *)
(* loop, the retry endpoint, and the clock.  One action is one database    *)
(* transaction, or the point where an exception or the end of the process  *)
(* cuts the worker off between two of them.                                *)
(*                                                                         *)
(* The last transaction of a worker is long: it locks the job's row at its *)
(* first progress update and holds the lock over chunking, the embedding   *)
(* jobs and the BM25 refresh.  It is two actions, BeginIndex and           *)
(* CommitIndex, and between them the row is skipped by claims and no other *)
(* transaction writes it.  Chunks it committed go only when                *)
(* replace_document_chunks puts others in their place, so chunked is never *)
(* taken back.  Its keyword rows are not part of chunked, because the      *)
(* refresh of any other ingestion rewrites them: see KeywordIndex.         *)
(*                                                                         *)
(* No worker sends heartbeats, so nothing keeps a lease alive while its    *)
(* worker computes: a slow worker outlives its lease.  The history         *)
(* variable overrun, which no step depends on, names the jobs this         *)
(* happened to; what must hold as long as lease_seconds was long enough is *)
(* stated of the other jobs.                                               *)
(***************************************************************************)
EXTENDS PipelineRows, FiniteSets

CONSTANT NoJob  \* held[w] of a worker without a job

ASSUME NoJobAssumption == NoJob \notin Jobs

VARIABLES jobs,     \* the table pipeline_jobs: [Jobs -> Row]
          before,   \* queued_at order, as in PipelineJobs
          file,     \* files.parse_status of the job's file
          chunked,  \* the file's chunks and embedding jobs are committed
          pc,       \* where each worker is in process_next_markdown_pipeline_job
          held,     \* the job each worker works on
          overrun   \* history: jobs whose lease ran out under a worker at work

vars == <<jobs, before, file, chunked, pc, held, overrun>>

ParseStatus == {"pending", "running", "succeeded", "failed"}

\* Places inside the try block, where an exception leads to _fail_claimed_job.
Trying == {"claimed", "started", "extracted", "indexing"}

TypeOK ==
  /\ jobs \in [Jobs -> Row]
  /\ before \in SUBSET (Jobs \X Jobs)
  /\ file \in [Jobs -> ParseStatus]
  /\ chunked \in [Jobs -> BOOLEAN]
  /\ pc \in [Workers -> Trying \union {"idle", "failing", "file_failed"}]
  /\ held \in [Workers -> Jobs \union {NoJob}]
  /\ overrun \in SUBSET Jobs

Init ==
  /\ jobs = [j \in Jobs |-> NoRow]
  /\ before = {}
  /\ file = [j \in Jobs |-> "pending"]
  /\ chunked = [j \in Jobs |-> FALSE]
  /\ pc = [w \in Workers |-> "idle"]
  /\ held = [w \in Workers |-> NoJob]
  /\ overrun = {}

\* Rows locked by the open last transaction of a worker.
Locked == {held[w] : w \in {u \in Workers : pc[u] = "indexing"}}

Goto(w, place) == pc' = [pc EXCEPT ![w] = place]

\* process_next_markdown_pipeline_job returns; the runner calls it again.
Leave(w) ==
  /\ pc' = [pc EXCEPT ![w] = "idle"]
  /\ held' = [held EXCEPT ![w] = NoJob]

-------------------------------------------------------------------------------
(* Uploads and the retry endpoint *)

\* File, document and job rows are inserted by one transaction.  A duplicate
\* upload finds the checksum and inserts nothing.
Upload(j) ==
  /\ jobs[j].status = "absent"
  /\ jobs' = [jobs EXCEPT ![j] = CreatedRow]
  /\ before' = Requeued(jobs, before, j)
  /\ UNCHANGED <<file, chunked, pc, held, overrun>>

RetryApi(j) ==
  /\ Retryable(jobs[j])
  /\ j \notin Locked
  /\ jobs' = [jobs EXCEPT ![j] = RetriedRow(@)]
  /\ before' = Requeued(jobs, before, j)
  /\ UNCHANGED <<file, chunked, pc, held, overrun>>

-------------------------------------------------------------------------------
(* The worker *)

ClaimNextJob(w) ==
  /\ pc[w] = "idle"
  /\ \E j \in ClaimNext(jobs, before, Locked) :
       /\ jobs' = [jobs EXCEPT ![j] = ClaimedRow(@, w)]
       /\ held' = [held EXCEPT ![w] = j]
  /\ Goto(w, "claimed")
  /\ UNCHANGED <<before, file, chunked, overrun>>

\* The file was loaded and is supported: parse_status and progress 0 of 5.
Start(w) ==
  LET j == held[w] IN
  /\ pc[w] = "claimed"
  /\ j \notin Locked
  /\ jobs' = [jobs EXCEPT ![j] = ProgressRow(@, 0, TotalUnits, "text_extraction")]
  /\ file' = [file EXCEPT ![j] = "running"]
  /\ Goto(w, "started")
  /\ UNCHANGED <<before, chunked, held, overrun>>

\* run_local_extraction returns, progress 1 of 5 is written, and a result that
\* is not "succeeded" goes to _fail_claimed_job.
Extract(w) ==
  LET j == held[w] IN
  /\ pc[w] = "started"
  /\ j \notin Locked
  /\ jobs' = [jobs EXCEPT ![j] = ProgressRow(@, 1, TotalUnits, "text_extraction")]
  /\ \E place \in {"extracted", "failing"} : Goto(w, place)
  /\ UNCHANGED <<before, file, chunked, held, overrun>>

\* The last transaction reaches its first write to the job's row.
BeginIndex(w) ==
  /\ pc[w] = "extracted"
  /\ held[w] \notin Locked
  /\ Goto(w, "indexing")
  /\ UNCHANGED <<jobs, before, file, chunked, held, overrun>>

CommitIndex_DataFirst(w) ==
  LET j == held[w] IN
  /\ pc[w] = "indexing"
  /\ chunked' = [chunked EXCEPT ![j] = TRUE]
  /\ IF chunked[j]
       THEN /\ jobs' = [jobs EXCEPT ![j] = SucceededRow(
                         ProgressRow(@, TotalUnits, TotalUnits, "text_extraction"))]
            /\ file' = [file EXCEPT ![j] = "succeeded"]
            /\ Leave(w)
       ELSE UNCHANGED <<jobs, file, pc, held>>
  /\ UNCHANGED <<before, overrun>>

CommitIndex_ProgressLast(w) ==
  LET j == held[w] IN
  /\ pc[w] = "indexing"
  /\ jobs' = [jobs EXCEPT
       ![j] = ProgressRow(SucceededRow(@), TotalUnits, TotalUnits, "text_extraction")]
  /\ file' = [file EXCEPT ![j] = "succeeded"]
  /\ chunked' = [chunked EXCEPT ![j] = TRUE]
  /\ Leave(w)
  /\ UNCHANGED <<before, overrun>>

\* Chunks, embedding jobs, parse_status and the job's outcome are committed
\* together, and with them the keyword rows, which KeywordIndex follows further.
CommitIndex(w) ==
  LET j == held[w] IN
  /\ pc[w] = "indexing"
  /\ jobs' = [jobs EXCEPT
       ![j] = SucceededRow(ProgressRow(@, TotalUnits, TotalUnits, "text_extraction"))]
  /\ file' = [file EXCEPT ![j] = "succeeded"]
  /\ chunked' = [chunked EXCEPT ![j] = TRUE]
  /\ Leave(w)
  /\ UNCHANGED <<before, overrun>>

\* Any exception inside the try block: an unusable or missing file, an error of
\* the extraction, a deadlock or another database error.  The open transaction
\* is rolled back and _fail_claimed_job is called.
Raise(w) ==
  /\ pc[w] \in Trying
  /\ Goto(w, "failing")
  /\ UNCHANGED <<jobs, before, file, chunked, held, overrun>>

FailFile_Skipped(w) ==
  /\ pc[w] = "failing"
  /\ Goto(w, "file_failed")
  /\ UNCHANGED <<jobs, before, file, chunked, held, overrun>>

\* _fail_claimed_job, first transaction: mark_file_parse_failed.
FailFile(w) ==
  /\ pc[w] = "failing"
  /\ file' = [file EXCEPT ![held[w]] = "failed"]
  /\ Goto(w, "file_failed")
  /\ UNCHANGED <<jobs, before, chunked, held, overrun>>

\* _fail_claimed_job, second transaction: mark_pipeline_failed.
FailJob(w) ==
  LET j == held[w] IN
  /\ pc[w] = "file_failed"
  /\ j \notin Locked
  /\ jobs' = [jobs EXCEPT ![j] = FailedRow(@)]
  /\ Leave(w)
  /\ UNCHANGED <<before, file, chunked, overrun>>

\* The process ends, or an exception leaves _fail_claimed_job itself (a lost
\* connection, or an exception whose str() is blank, which mark_file_parse_failed
\* refuses).  The job keeps its row and its lease; a worker of the same name may
\* be started again.
Crash(w) ==
  /\ pc[w] # "idle"
  /\ Leave(w)
  /\ UNCHANGED <<jobs, before, file, chunked, overrun>>

\* now() passes lease_expires_at.
LeaseExpires(j) ==
  /\ jobs[j].lease = "live"
  /\ jobs' = [jobs EXCEPT ![j].lease = "expired"]
  /\ overrun' = IF \E w \in Workers : held[w] = j THEN overrun \union {j} ELSE overrun
  /\ UNCHANGED <<before, file, chunked, pc, held>>

WorkerStep(w) ==
  \/ ClaimNextJob(w) \/ Start(w) \/ Extract(w) \/ BeginIndex(w)
  \/ CommitIndex(w) \/ FailFile(w) \/ FailJob(w)

Next ==
  \/ \E j \in Jobs : Upload(j) \/ RetryApi(j) \/ LeaseExpires(j)
  \/ \E w \in Workers : WorkerStep(w) \/ Raise(w) \/ Crash(w)

Spec == Init /\ [][Next]_vars

(***************************************************************************)
(* run_foreground_workers.py calls the worker until the queue is empty and *)
(* is run again by its supervisor, so a worker that can take a step takes  *)
(* one; time passes.  Uploads, retries, exceptions and crashes are never   *)
(* forced.                                                                 *)
(***************************************************************************)
Fairness ==
  /\ \A w \in Workers : WF_vars(WorkerStep(w))
  /\ \A j \in Jobs : WF_vars(LeaseExpires(j))

FairSpec == Spec /\ Fairness

-------------------------------------------------------------------------------
(* Safety, for any timing *)

\* Every worker that still holds a job, the ones whose lease was taken over
\* included, spent an attempt of it, so a job never has more concurrent workers
\* than attempts: zombies are bounded by the budget.
HoldersSpentAttempts ==
  \A j \in Jobs :
    Cardinality({w \in Workers : held[w] = j}) <= jobs[j].attempts

\* What search can find of a file and what its job reports agree: a failed, queued
\* or running job has no chunks in the corpus, whatever crashes, failures and
\* retries it went through, and a succeeded one keeps its success.  Only a job that
\* was claimed again after its lease ran out under a worker may have both chunks and
\* another status, when one of its workers starts or fails after another committed;
\* a late worker alone does no harm.
CorpusIsReported ==
  \A j \in Jobs :
    \/ chunked[j] <=> jobs[j].status = "succeeded"
    \/ chunked[j] /\ j \in overrun /\ jobs[j].attempts > 1

-------------------------------------------------------------------------------
(* Safety, as long as the lease of a job outlasts the work on it *)

\* A worker at work is the lease owner of a running job: nobody settles, requeues
\* or takes over the job under it, so what it writes without looking (no write of
\* a worker checks status or owner) lands on its own attempt.  In particular the
\* job has no second worker.
HolderIsOwner ==
  \A w \in Workers :
    held[w] \in Jobs \ overrun =>
      /\ jobs[held[w]].status = "running"
      /\ jobs[held[w]].owner = w

\* The row of the job and the row of the file are written by different
\* transactions when a job fails; they agree on every outcome nevertheless, and a
\* succeeded job shows all its units.
OutcomesAgree ==
  \A j \in Jobs \ overrun :
    /\ jobs[j].status = "succeeded" =>
         /\ file[j] = "succeeded"
         /\ jobs[j].stage = "completed"
         /\ jobs[j].done = TotalUnits
    /\ jobs[j].status = "failed" => file[j] = "failed"

\* "여러 worker가 같은 job을 중복 처리하지 않도록" (SRS, line 200): the lease exists so
\* that several workers do not process the same job.
OneWorkerPerJob ==
  \A u, w \in Workers : u # w /\ held[u] # NoJob => held[u] # held[w]

-------------------------------------------------------------------------------
(* Liveness *)

\* The last attempt of a job ended without a result.
Exhausted(j) ==
  /\ jobs[j].status = "running"
  /\ jobs[j].lease = "expired"
  /\ jobs[j].attempts = MaxAttempts

\* Every job that is queued comes to an end, however many crashes and exceptions
\* there are: it succeeds, fails, or has used up its attempts.
EveryJobResolves ==
  \A j \in Jobs :
    jobs[j].status = "queued" ~>
      (jobs[j].status \in {"succeeded", "failed"} \/ Exhausted(j))

\* "lease가 만료된 running job은 재점유 가능해야 하며" (SRS, line 739): a running job
\* whose lease ran out can be claimed again, so it does not stay that way.
ExpiredIsReclaimed ==
  \A j \in Jobs :
    (jobs[j].status = "running" /\ jobs[j].lease = "expired")
      ~> (jobs[j].status # "running" \/ jobs[j].lease = "live")

-------------------------------------------------------------------------------
(* The worker program is a client of the repository *)

Repository == INSTANCE PipelineJobs

\* Every step of the program is one call of the repository or leaves its table
\* alone, so what PipelineJobs promises to any caller holds here.
ImplementsRepository == Repository!Spec

Holder(j) == {w \in Workers : held[w] = j}

AnyOf(S) == CHOOSE x \in S : TRUE

QueuePlace ==
  [j \in Jobs |->
     CASE jobs[j].status = "absent" -> "absent"
       [] jobs[j].status = "queued" -> "waiting"
       [] jobs[j].status = "running" -> IF Holder(j) = {} THEN "lost" ELSE "working"
       [] jobs[j].status = "succeeded" -> "done"
       [] OTHER -> "failed"]

QueueWorker ==
  [j \in Jobs |-> IF Holder(j) # {} THEN AnyOf(Holder(j)) ELSE NoOne]

QueueTries == [j \in Jobs |-> jobs[j].attempts]

Queue == INSTANCE WorkQueue
  WITH Items <- Jobs, Budget <- MaxAttempts,
       place <- QueuePlace, worker <- QueueWorker, tries <- QueueTries

\* As long as no lease runs out under a worker at work, files are ingested by one
\* worker at a time and within the budget, as WorkQueue says.
ImplementsQueue == Queue!Init /\ [][overrun' = {} => Queue!Next]_(Queue!vars)

===============================================================================
