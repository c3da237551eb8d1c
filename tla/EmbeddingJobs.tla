----------------------------- MODULE EmbeddingJobs -----------------------------
(***************************************************************************)
(* The embedding job repository, app/core/embedding_jobs.py, under its     *)
(* most general client: any call at any time, one transaction per action.  *)
(***************************************************************************)
EXTENDS EmbeddingRows

VARIABLES jobs,    \* the table: [Jobs -> Row]
          before   \* pairs <<k, j>> of jobs, k created before j

vars == <<jobs, before>>

TypeOK ==
  /\ jobs \in [Jobs -> Row]
  /\ before \in SUBSET (Jobs \X Jobs)

Init ==
  /\ jobs = [j \in Jobs |-> NoRow]
  /\ before = {}

\* ON CONFLICT DO NOTHING: a job that exists is returned, not changed.  Several
\* jobs may be created by one transaction, and their created_at is the same: here
\* they keep no order between them.
Create(new) ==
  /\ new # {}
  /\ \A j \in new : jobs[j].status = "absent"
  /\ jobs' = [j \in Jobs |-> IF j \in new THEN CreatedRow ELSE jobs[j]]
  /\ before' = Created(jobs, before, new)

\* Chunks are replaced: their jobs go with them, and jobs of new chunks may come
\* in the same transaction.
Replace(old, new) ==
  /\ old # {}
  /\ \A j \in new : jobs[j].status = "absent" /\ j \notin old
  /\ jobs' = [j \in Jobs |-> CASE j \in old -> DeletedRow
                               [] j \in new -> CreatedRow
                               [] OTHER -> jobs[j]]
  /\ before' = Created(jobs, before, new)

Claim(w) ==
  \E visible \in SUBSET Jobs :
    \E j \in ClaimNext(jobs, before, visible) :
      /\ jobs' = [jobs EXCEPT ![j] = ClaimedRow(@, w)]
      /\ UNCHANGED before

Heartbeat(j, w) ==
  /\ jobs[j].status = "running"
  /\ jobs[j].owner = w
  /\ jobs' = [jobs EXCEPT ![j].lease = "live"]
  /\ UNCHANGED before

MarkSucceeded(j) ==
  /\ Exists(jobs[j])
  /\ jobs' = [jobs EXCEPT ![j] = SettledRow(@, "succeeded")]
  /\ UNCHANGED before

MarkFailed(j) ==
  /\ Exists(jobs[j])
  /\ jobs' = [jobs EXCEPT ![j] = SettledRow(@, "failed")]
  /\ UNCHANGED before

MarkSkipped(j) ==
  /\ Exists(jobs[j])
  /\ jobs' = [jobs EXCEPT ![j] = SettledRow(@, "skipped")]
  /\ UNCHANGED before

Defer(j) ==
  /\ Exists(jobs[j])
  /\ jobs' = [jobs EXCEPT ![j] = DeferredRow(@)]
  /\ UNCHANGED before

Retry(j) ==
  /\ Retryable(jobs[j])
  /\ jobs' = [jobs EXCEPT ![j] = PendingRow(@)]
  /\ UNCHANGED before

ReleaseStale(j) ==
  /\ Reclaimable(jobs[j])
  /\ jobs' = [jobs EXCEPT ![j] = PendingRow(@)]
  /\ UNCHANGED before

\* now() passes lease_expires_at.
LeaseExpires(j) ==
  /\ jobs[j].lease = "live"
  /\ jobs' = [jobs EXCEPT ![j].lease = "expired"]
  /\ UNCHANGED before

Next ==
  \/ \E new \in SUBSET Jobs : Create(new)
  \/ \E old, new \in SUBSET Jobs : Replace(old, new)
  \/ \E w \in Workers : Claim(w)
  \/ \E j \in Jobs, w \in Workers : Heartbeat(j, w)
  \/ \E j \in Jobs : \/ MarkSucceeded(j)
                     \/ MarkFailed(j)
                     \/ MarkSkipped(j)
                     \/ Defer(j)
                     \/ Retry(j)
                     \/ ReleaseStale(j)
                     \/ LeaseExpires(j)

Spec == Init /\ [][Next]_vars

-------------------------------------------------------------------------------
(* Properties *)

\* max_attempts bounds the claims of a job under every sequence of calls, and a
\* pending job always has an attempt left: deferrals, releases of stale leases
\* and retries, single or in bulk, cannot put a spent job back in the queue.  Only
\* the code keeps this: embedding_jobs has no CHECK on attempts, and the claim
\* query takes a pending job without looking at them.
WithinBudget ==
  \A j \in Jobs :
    /\ jobs[j].attempts <= MaxAttempts
    /\ jobs[j].status = "pending" => jobs[j].attempts < MaxAttempts

\* The lease columns are set exactly while a job runs (or is deferred, which is
\* stored as running); unlike pipeline_jobs the table has no CHECK for it.
LeasedIffRunning ==
  \A j \in Jobs :
    /\ jobs[j].status = "running" <=> jobs[j].owner # NoOne
    /\ jobs[j].status = "running" <=> jobs[j].lease # "none"

\* finished_at tells the settled jobs, also after a job that was settled already
\* is deferred, retried or settled again by a late worker.
FinishedIffSettled ==
  \A j \in Jobs :
    jobs[j].finished <=> jobs[j].status \in {"succeeded", "failed", "skipped"}

===============================================================================
