----------------------------- MODULE PipelineRows -----------------------------
(***************************************************************************)
(* The rows of the table pipeline_jobs and what one SQL statement of       *)
(* app/core/pipeline_jobs.py does to one of them.  No variables: the       *)
(* state machines PipelineJobs (any caller) and PipelineWorker (the        *)
(* ingestion program) are both built from these operators.                 *)
(*                                                                         *)
(* Data kept: status, stage, the two progress counters, attempts, the      *)
(* lease and whether error_code and finished_at are NULL.  lease stands    *)
(* for lease_expires_at compared with now(): "live" is a lease that has    *)
(* not run out, "expired" one with lease_expires_at < now().  Of the eight *)
(* stages only those another transaction can observe are told apart;       *)
(* text_extraction stands for every stage between upload and completion.   *)
(* Left out: messages, metadata, priority (every job is created with the   *)
(* default 100) and progress_percent, a function of the two counters.      *)
(***************************************************************************)
EXTENDS Naturals

CONSTANTS Jobs,         \* job_id values; one job per uploaded file
          Workers,      \* values of worker_name
          MaxAttempts,  \* max_attempts, 3 by default
          TotalUnits,   \* MARKDOWN_PIPELINE_TOTAL_UNITS, 5
          NoOne         \* lease_owner IS NULL

ASSUME WorkersAssumption == NoOne \notin Workers
ASSUME MaxAttemptsAssumption == MaxAttempts \in Nat \ {0}
ASSUME TotalUnitsAssumption == TotalUnits \in Nat \ {0}

Status == {"queued", "running", "succeeded", "failed", "canceled", "skipped"}

Stage == {"upload_saved", "text_extraction", "completed"}

Row == [status: Status \union {"absent"}, stage: Stage,
        done: 0..TotalUnits, total: 0..TotalUnits, attempts: 0..MaxAttempts,
        owner: Workers \union {NoOne}, lease: {"none", "live", "expired"},
        error: BOOLEAN, finished: BOOLEAN]

\* The row of a job_id that was not inserted yet.
NoRow == [status |-> "absent", stage |-> "upload_saved", done |-> 0, total |-> 0,
          attempts |-> 0, owner |-> NoOne, lease |-> "none",
          error |-> FALSE, finished |-> FALSE]

-------------------------------------------------------------------------------
(* Which rows a statement may take *)

Reclaimable_Unbounded(r) == r.status = "running" /\ r.lease = "expired"

Reclaimable_AnyLease(r) == r.status = "running" /\ r.attempts < MaxAttempts

Reclaimable_OffByOne(r) ==
  /\ r.status = "running"
  /\ r.lease = "expired"
  /\ r.attempts + 1 < MaxAttempts

\* The second arm of the claim query's WHERE: a running job whose lease ran out
\* and that has an attempt left.
Reclaimable(r) ==
  /\ r.status = "running"
  /\ r.lease = "expired"
  /\ r.attempts < MaxAttempts

Retryable_Unbounded(r) == r.status \in {"failed", "canceled"}

Retryable_Running(r) ==
  r.status \in {"running", "failed", "canceled"} /\ r.attempts < MaxAttempts

\* The WHERE of retry_pipeline_job.
Retryable(r) == r.status \in {"failed", "canceled"} /\ r.attempts < MaxAttempts

\* Candidates of claim_next_pipeline_job, of which ORDER BY and LIMIT 1 keep
\* one: queued jobs before reclaimable ones, then queued_at; a row locked by
\* another transaction is skipped (FOR UPDATE SKIP LOCKED).
ClaimNext(rows, before, locked) ==
  LET queued == {j \in Jobs \ locked : rows[j].status = "queued"}
      stale == {j \in Jobs \ locked : Reclaimable(rows[j])}
      pool == IF queued # {} THEN queued ELSE stale
  IN {j \in pool : \A k \in pool \ {j} : <<k, j>> \notin before}

-------------------------------------------------------------------------------
(* What a statement makes of a row *)

\* INSERT INTO pipeline_jobs: the column defaults of the table.
CreatedRow == [NoRow EXCEPT !.status = "queued"]

ClaimedRow_Uncounted(r, w) ==
  [r EXCEPT !.status = "running", !.owner = w, !.lease = "live"]

ClaimedRow(r, w) ==
  [r EXCEPT !.status = "running", !.owner = w, !.lease = "live",
            !.attempts = @ + 1]

\* update_pipeline_progress overwrites stage and counters whatever the status.
ProgressRow(r, n, t, s) == [r EXCEPT !.stage = s, !.done = n, !.total = t]

SucceededRow_KeepsLease(r) ==
  [r EXCEPT !.status = "succeeded", !.stage = "completed",
            !.done = IF r.total > 0 THEN r.total ELSE @,
            !.error = FALSE, !.finished = TRUE]

SucceededRow(r) ==
  [r EXCEPT !.status = "succeeded", !.stage = "completed",
            !.done = IF r.total > 0 THEN r.total ELSE @,
            !.owner = NoOne, !.lease = "none",
            !.error = FALSE, !.finished = TRUE]

FailedRow(r) ==
  [r EXCEPT !.status = "failed", !.owner = NoOne, !.lease = "none",
            !.error = TRUE, !.finished = TRUE]

RetriedRow(r) ==
  [r EXCEPT !.status = "queued", !.owner = NoOne, !.lease = "none",
            !.error = FALSE, !.finished = FALSE]

\* queued_at = now(): j goes behind every other inserted job.
Requeued(rows, before, j) ==
  {p \in before : p[1] # j /\ p[2] # j}
    \union {<<k, j>> : k \in {k \in Jobs \ {j} : rows[k].status # "absent"}}

===============================================================================
