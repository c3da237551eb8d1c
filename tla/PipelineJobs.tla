----------------------------- MODULE PipelineJobs -----------------------------
(***************************************************************************)
(* The pipeline job repository, app/core/pipeline_jobs.py, under its most  *)
(* general client: any caller may make any call at any time, one database  *)
(* transaction per action.  What holds here holds for every program that   *)
(* touches the table only through this file.                               *)
(***************************************************************************)
EXTENDS PipelineRows

VARIABLES jobs,    \* the table: [Jobs -> Row]
          before   \* pairs <<k, j>> with queued_at of k earlier than that of j

vars == <<jobs, before>>

TypeOK ==
  /\ jobs \in [Jobs -> Row]
  /\ before \in SUBSET (Jobs \X Jobs)

Init ==
  /\ jobs = [j \in Jobs |-> NoRow]
  /\ before = {}

Exists(j) == jobs[j].status # "absent"

Create(j) ==
  /\ ~Exists(j)
  /\ jobs' = [jobs EXCEPT ![j] = CreatedRow]
  /\ before' = Requeued(jobs, before, j)

\* Rows locked by other transactions are invisible to the query.
Claim(w) ==
  \E locked \in SUBSET Jobs :
    \E j \in ClaimNext(jobs, before, locked) :
      /\ jobs' = [jobs EXCEPT ![j] = ClaimedRow(@, w)]
      /\ UNCHANGED before

\* Only the owner of a running job renews its lease.
Heartbeat(j, w) ==
  /\ jobs[j].status = "running"
  /\ jobs[j].owner = w
  /\ jobs' = [jobs EXCEPT ![j].lease = "live"]
  /\ UNCHANGED before

\* t is the total after the call: the argument, or the row's own when it is None.
Progress(j, n, t, s) ==
  /\ Exists(j)
  /\ n <= t
  /\ jobs' = [jobs EXCEPT ![j] = ProgressRow(@, n, t, s)]
  /\ UNCHANGED before

MarkSucceeded(j) ==
  /\ Exists(j)
  /\ jobs' = [jobs EXCEPT ![j] = SucceededRow(@)]
  /\ UNCHANGED before

MarkFailed(j) ==
  /\ Exists(j)
  /\ jobs' = [jobs EXCEPT ![j] = FailedRow(@)]
  /\ UNCHANGED before

Retry(j) ==
  /\ Retryable(jobs[j])
  /\ jobs' = [jobs EXCEPT ![j] = RetriedRow(@)]
  /\ before' = Requeued(jobs, before, j)

\* now() passes lease_expires_at.
LeaseExpires(j) ==
  /\ jobs[j].lease = "live"
  /\ jobs' = [jobs EXCEPT ![j].lease = "expired"]
  /\ UNCHANGED before

Next ==
  \/ \E j \in Jobs : \/ Create(j)
                     \/ MarkSucceeded(j)
                     \/ MarkFailed(j)
                     \/ Retry(j)
                     \/ LeaseExpires(j)
  \/ \E w \in Workers : Claim(w)
  \/ \E j \in Jobs, w \in Workers : Heartbeat(j, w)
  \/ \E j \in Jobs, n, t \in 0..TotalUnits, s \in Stage : Progress(j, n, t, s)

Spec == Init /\ [][Next]_vars

-------------------------------------------------------------------------------
(* Properties *)

\* The CHECK attempts <= max_attempts of the table is never what stops a claim:
\* a job waits in the queue only while it has an attempt left, however its
\* failures, late results and retries are interleaved.
WithinBudget ==
  \A j \in Jobs :
    /\ jobs[j].attempts <= MaxAttempts
    /\ jobs[j].status = "queued" => jobs[j].attempts < MaxAttempts

\* The lease columns are set exactly while the job runs.  The table checks one
\* direction only; the other is what keeps a settled or requeued job from
\* looking owned.
LeasedIffRunning ==
  \A j \in Jobs :
    /\ jobs[j].status = "running" <=> jobs[j].owner # NoOne
    /\ jobs[j].status = "running" <=> jobs[j].lease # "none"

\* finished_at and error_code tell the outcome, after any sequence of calls.
OutcomeColumns ==
  \A j \in Jobs :
    /\ jobs[j].finished <=> jobs[j].status \in {"succeeded", "failed"}
    /\ jobs[j].error <=> jobs[j].status = "failed"

\* A lease is taken from a worker only after it ran out: a running job changes
\* owner without passing through another status only if its lease had expired.
NoStolenLease ==
  [][\A j \in Jobs :
       jobs[j].status = "running" /\ jobs'[j].status = "running"
         /\ jobs'[j].attempts # jobs[j].attempts
       => jobs[j].lease = "expired"]_vars

===============================================================================
