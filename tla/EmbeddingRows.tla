----------------------------- MODULE EmbeddingRows -----------------------------
(***************************************************************************)
(* The rows of the table embedding_jobs and what one SQL statement of      *)
(* app/core/embedding_jobs.py does to one of them.  A job is identified by *)
(* its chunk and its embedding profile (UNIQUE (chunk_id, profile_name));  *)
(* chunk ids are never used twice, so a deleted job never comes back.      *)
(* As in PipelineRows, lease is lease_expires_at compared with now().      *)
(***************************************************************************)
EXTENDS Naturals

CONSTANTS Chunks,       \* chunk_id values
          Profiles,     \* embedding profiles
          Workers,      \* values of worker_name
          Gate,         \* the lease owner "readiness-gate" of a deferred job
          MaxAttempts,  \* max_attempts, 3 by default
          NoOne         \* lease_owner IS NULL

ASSUME OwnersAssumption == NoOne \notin Workers \union {Gate} /\ Gate \notin Workers
ASSUME MaxAttemptsAssumption == MaxAttempts \in Nat \ {0}

Jobs == Chunks \X Profiles

Status == {"pending", "running", "succeeded", "failed", "skipped"}

Row == [status: Status \union {"absent", "deleted"}, attempts: 0..MaxAttempts,
        owner: Workers \union {Gate, NoOne}, lease: {"none", "live", "expired"},
        finished: BOOLEAN]

NoRow == [status |-> "absent", attempts |-> 0, owner |-> NoOne,
          lease |-> "none", finished |-> FALSE]

\* ON DELETE CASCADE from the chunk.
DeletedRow == [NoRow EXCEPT !.status = "deleted"]

Exists(r) == r.status \in Status

-------------------------------------------------------------------------------
(* Which rows a statement may take *)

Expired(r) == r.status = "running" /\ r.lease = "expired"

Reclaimable_Unbounded(r) == Expired(r)

Reclaimable_OffByOne(r) == Expired(r) /\ r.attempts + 1 < MaxAttempts

Reclaimable_AnyLease(r) == r.status = "running" /\ r.attempts < MaxAttempts

\* Running, the lease ran out and an attempt is left: what the claim query takes
\* next to the pending jobs, and what release_stale_embedding_job_lease accepts.
Reclaimable(r) == Expired(r) /\ r.attempts < MaxAttempts

Retryable_Unbounded(r) == r.status = "failed"

Retryable_AnyStatus(r) == r.attempts < MaxAttempts

\* The WHERE of retry_embedding_job.
Retryable(r) == r.status = "failed" /\ r.attempts < MaxAttempts

\* Candidates of claim_next_embedding_job, of which ORDER BY and LIMIT 1 keep
\* one: pending jobs before reclaimable ones, then in the order of creation.
\* visible: the jobs of the requested profile that no other transaction locks.
ClaimNext(rows, before, visible) ==
  LET pending == {j \in visible : rows[j].status = "pending"}
      stale == {j \in visible : Reclaimable(rows[j])}
      pool == IF pending # {} THEN pending ELSE stale
  IN {j \in pool : \A k \in pool \ {j} : <<k, j>> \notin before}

-------------------------------------------------------------------------------
(* What a statement makes of a row *)

CreatedRow == [NoRow EXCEPT !.status = "pending"]

\* New jobs come behind the ones that exist.
Created(rows, before, new) ==
  before \union ({k \in DOMAIN rows : rows[k].status # "absent"} \X new)

ClaimedRow_Uncounted(r, w) ==
  [r EXCEPT !.status = "running", !.owner = w, !.lease = "live"]

ClaimedRow(r, w) ==
  [r EXCEPT !.status = "running", !.owner = w, !.lease = "live", !.attempts = @ + 1]

SettledRow(r, outcome) ==
  [r EXCEPT !.status = outcome, !.owner = NoOne, !.lease = "none", !.finished = TRUE]

\* defer_embedding_job checks neither status nor owner and leaves attempts alone.
DeferredRow(r) ==
  [r EXCEPT !.status = "running", !.owner = Gate, !.lease = "live",
            !.finished = FALSE]

PendingRow_KeepsLease(r) == [r EXCEPT !.status = "pending", !.finished = FALSE]

\* retry_embedding_job and release_stale_embedding_job_lease.
PendingRow(r) ==
  [r EXCEPT !.status = "pending", !.owner = NoOne, !.lease = "none",
            !.finished = FALSE]

===============================================================================
