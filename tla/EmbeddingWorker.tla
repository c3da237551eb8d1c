---------------------------- MODULE EmbeddingWorker ----------------------------
(***************************************************************************)
(* The embedding program: workers that run                                 *)
(* process_next_embedding_job_with_provider_routes                         *)
(* (app/core/embedding_worker.py) in a loop over a repository that the     *)
(* ingestion of a new version of the document, the reconciliation of       *)
(* missing jobs, the retry and release endpoints and the clock change at   *)
(* the same time.  One action is one database transaction or the decision  *)
(* between two of them.                                                    *)
(*                                                                         *)
(* Chunks are the chunks of every version of every document, so an         *)
(* ingestion may replace any set of them.                                  *)
(* Routes and their readiness are read between two transactions and may be *)
(* any: only how many candidates remain matters.  The provider call runs   *)
(* inside the worker's last transaction, which writes nothing before it,   *)
(* so that transaction is the one action Store.                            *)
(***************************************************************************)
EXTENDS EmbeddingRows, FiniteSets

CONSTANTS MaxRoutes,    \* active provider routes of a profile, at most
          DeferBlocked, \* readiness_gate_failure_mode = defer (else fail)
          NoJob         \* held[w] of a worker without a job

ASSUME DeferBlockedAssumption == DeferBlocked \in BOOLEAN
ASSUME MaxRoutesAssumption == MaxRoutes \in Nat
ASSUME NoJobAssumption == NoJob \notin Jobs

VARIABLES jobs,    \* the table embedding_jobs: [Jobs -> Row]
          before,  \* order of creation, as in EmbeddingJobs
          live,    \* the rows of the table chunks
          vectors, \* rows of the profiles' vector tables, keyed like jobs
          pc,      \* where each worker is
          held,    \* the job each worker works on
          left,    \* route candidates a worker has not tried
          overrun  \* history: jobs whose lease ran out under a worker at work

vars == <<jobs, before, live, vectors, pc, held, left, overrun>>

TypeOK ==
  /\ jobs \in [Jobs -> Row]
  /\ before \in SUBSET (Jobs \X Jobs)
  /\ live \in SUBSET Chunks
  /\ vectors \in SUBSET Jobs
  /\ pc \in [Workers -> {"idle", "claimed", "embedding", "deferring", "failing"}]
  /\ held \in [Workers -> Jobs \union {NoJob}]
  /\ left \in [Workers -> 0..(MaxRoutes + 1)]
  /\ overrun \in SUBSET Jobs

Init ==
  /\ jobs = [j \in Jobs |-> NoRow]
  /\ before = {}
  /\ live = {}
  /\ vectors = {}
  /\ pc = [w \in Workers |-> "idle"]
  /\ held = [w \in Workers |-> NoJob]
  /\ left = [w \in Workers |-> 0]
  /\ overrun = {}

Goto(w, at) == pc' = [pc EXCEPT ![w] = at]

\* process_next_embedding_job_with_provider_routes returns.
Leave(w) ==
  /\ pc' = [pc EXCEPT ![w] = "idle"]
  /\ held' = [held EXCEPT ![w] = NoJob]
  /\ left' = [left EXCEPT ![w] = 0]

-------------------------------------------------------------------------------
(* Ingestion, reconciliation, endpoints *)

\* replace_document_chunks: the document's old chunks, if it has any, are deleted,
\* their jobs and vectors with them, and each new chunk gets a job for every
\* active profile.
Ingest(old, new, active) ==
  LET gone == old \X Profiles
      added == new \X active IN
  /\ \A c \in new : c \notin live /\ \A p \in Profiles : jobs[<<c, p>>] = NoRow
  /\ live' = (live \ old) \union new
  /\ vectors' = vectors \ gone
  /\ jobs' = [j \in Jobs |-> CASE j \in added -> CreatedRow
                               [] j \in gone -> DeletedRow
                               [] OTHER -> jobs[j]]
  /\ before' = Created(jobs, before, added)
  /\ UNCHANGED <<pc, held, left, overrun>>

\* Jobs that are missing for live chunks and active profiles are added.
Reconcile(active) ==
  LET new == {j \in live \X active : jobs[j].status = "absent"} IN
  /\ new # {}
  /\ jobs' = [j \in Jobs |-> IF j \in new THEN CreatedRow ELSE jobs[j]]
  /\ before' = Created(jobs, before, new)
  /\ UNCHANGED <<live, vectors, pc, held, left, overrun>>

RetryApi(j) ==
  /\ Retryable(jobs[j])
  /\ jobs' = [jobs EXCEPT ![j] = PendingRow(@)]
  /\ UNCHANGED <<before, live, vectors, pc, held, left, overrun>>

ReleaseApi(j) ==
  /\ Reclaimable(jobs[j])
  /\ jobs' = [jobs EXCEPT ![j] = PendingRow(@)]
  /\ UNCHANGED <<before, live, vectors, pc, held, left, overrun>>

-------------------------------------------------------------------------------
(* The worker *)

\* With a profile, or for any profile.
ClaimNextJob(w) ==
  /\ pc[w] = "idle"
  /\ \E profiles \in {Profiles} \union {{p} : p \in Profiles} :
       \E j \in ClaimNext(jobs, before, Chunks \X profiles) :
         /\ jobs' = [jobs EXCEPT ![j] = ClaimedRow(@, w)]
         /\ held' = [held EXCEPT ![w] = j]
  /\ Goto(w, "claimed")
  /\ UNCHANGED <<before, live, vectors, left, overrun>>

\* n active routes, m of them ready (m = n without the gate).  No route at all
\* means the fallback configuration, tried like a single route.
SelectRoutes(w) ==
  /\ pc[w] = "claimed"
  /\ \E n \in 0..MaxRoutes : \E m \in 0..n :
       IF n > 0 /\ m = 0
       THEN /\ Goto(w, IF DeferBlocked THEN "deferring" ELSE "failing")
            /\ UNCHANGED left
       ELSE /\ Goto(w, "embedding")
            /\ left' = [left EXCEPT ![w] = IF m = 0 THEN 1 ELSE m]
  /\ UNCHANGED <<jobs, before, live, vectors, held, overrun>>

Store_VectorAfter(w) ==
  /\ pc[w] = "embedding"
  /\ held[w][1] \in live
  /\ jobs' = [jobs EXCEPT ![held[w]] = SettledRow(@, "succeeded")]
  /\ Leave(w)
  /\ UNCHANGED <<before, live, vectors, overrun>>

\* The provider answers; the vector and the job's outcome are committed together.
Store(w) ==
  /\ pc[w] = "embedding"
  /\ held[w][1] \in live
  /\ vectors' = vectors \union {held[w]}
  /\ jobs' = [jobs EXCEPT ![held[w]] = SettledRow(@, "succeeded")]
  /\ Leave(w)
  /\ UNCHANGED <<before, live, overrun>>

\* A provider error: the next candidate is tried, the last one fails the job.
RouteFails(w) ==
  /\ pc[w] = "embedding"
  /\ left' = [left EXCEPT ![w] = @ - 1]
  /\ Goto(w, IF left[w] > 1 THEN "embedding" ELSE "failing")
  /\ UNCHANGED <<jobs, before, live, vectors, held, overrun>>

\* The chunk is gone (before the call, or by the foreign key after it), or any
\* error that is not the provider's: no other route is tried.
Raise(w) ==
  /\ pc[w] = "embedding"
  /\ Goto(w, "failing")
  /\ UNCHANGED <<jobs, before, live, vectors, held, left, overrun>>

FailJob_Inserts(w) ==
  /\ pc[w] = "failing"
  /\ jobs' = [jobs EXCEPT ![held[w]] = SettledRow(@, "failed")]
  /\ Leave(w)
  /\ UNCHANGED <<before, live, vectors, overrun>>

\* _fail_claimed_embedding_job; of a deleted job nothing is left to update.
FailJob(w) ==
  LET j == held[w] IN
  /\ pc[w] = "failing"
  /\ jobs' = [jobs EXCEPT ![j] = IF Exists(@) THEN SettledRow(@, "failed") ELSE @]
  /\ Leave(w)
  /\ UNCHANGED <<before, live, vectors, overrun>>

DeferJob(w) ==
  LET j == held[w] IN
  /\ pc[w] = "deferring"
  /\ jobs' = [jobs EXCEPT ![j] = IF Exists(@) THEN DeferredRow(@) ELSE @]
  /\ Leave(w)
  /\ UNCHANGED <<before, live, vectors, overrun>>

\* The process ends, or an exception leaves the function: reading the routes or
\* their readiness, and _fail_claimed_embedding_job itself, are not guarded.
Crash(w) ==
  /\ pc[w] # "idle"
  /\ Leave(w)
  /\ UNCHANGED <<jobs, before, live, vectors, overrun>>

\* now() passes lease_expires_at, of a lease or of a deferral.
LeaseExpires(j) ==
  /\ jobs[j].lease = "live"
  /\ jobs' = [jobs EXCEPT ![j].lease = "expired"]
  /\ overrun' = IF \E w \in Workers : held[w] = j THEN overrun \union {j} ELSE overrun
  /\ UNCHANGED <<before, live, vectors, pc, held, left>>

WorkerStep(w) ==
  \/ ClaimNextJob(w) \/ SelectRoutes(w) \/ Store(w) \/ RouteFails(w)
  \/ Raise(w) \/ FailJob(w) \/ DeferJob(w)

Next ==
  \/ \E old \in SUBSET live, new \in (SUBSET Chunks) \ {{}}, active \in SUBSET Profiles :
       Ingest(old, new, active)
  \/ \E active \in SUBSET Profiles : Reconcile(active)
  \/ \E j \in Jobs : RetryApi(j) \/ ReleaseApi(j) \/ LeaseExpires(j)
  \/ \E w \in Workers : WorkerStep(w) \/ Crash(w)

Spec == Init /\ [][Next]_vars

\* Workers run in a loop and every provider call ends (its client has a timeout);
\* time passes.  Endpoints, ingestions and crashes are never forced.
Fairness ==
  /\ \A w \in Workers : WF_vars(WorkerStep(w))
  /\ \A j \in Jobs : WF_vars(LeaseExpires(j))

FairSpec == Spec /\ Fairness

-------------------------------------------------------------------------------
(* Safety, for any timing *)

\* A succeeded job means that the vector of its chunk is stored, and the search
\* readiness counts rely on it: no late worker, failover, deferral or replacement
\* of the chunks in between leaves a succeeded job without its vector.
SucceededHasVector ==
  \A j \in Jobs : jobs[j].status = "succeeded" => j \in vectors /\ j[1] \in live

\* Late workers are bounded by the budget: each one spent an attempt.
HoldersSpentAttempts ==
  \A j \in Jobs :
    Exists(jobs[j]) => Cardinality({w \in Workers : held[w] = j}) <= jobs[j].attempts

\* Neither a retry, a release, a claim nor time ever undoes a success.  It goes with
\* its chunk, or a worker that still holds the job takes it back with a failure or a
\* deferral that looks at nothing; then the job was claimed again after its lease ran
\* out under a worker, so a late worker that is alone does no harm.
SucceededIsFinal ==
  [][\A j \in Jobs :
       jobs[j].status = "succeeded" /\ jobs'[j].status \notin {"succeeded", "deleted"} =>
         /\ j \in overrun
         /\ jobs[j].attempts > 1
         /\ \E w \in Workers :
              held[w] = j /\ pc[w] \in {"failing", "deferring"} /\ held'[w] = NoJob]_vars

-------------------------------------------------------------------------------
(* Safety, as long as the lease of a job outlasts the work on it *)

\* Two workers never embed the same chunk for the same profile, and the job of a
\* worker runs under its own lease unless its chunk was replaced.
HolderIsOwner ==
  \A w \in Workers :
    LET j == held[w] IN
    j \in Jobs \ overrun /\ Exists(jobs[j]) => jobs[j].status = "running" /\ jobs[j].owner = w

-------------------------------------------------------------------------------
(* Liveness *)

\* The last attempt ended without a result, or was spent on a deferral.
Exhausted(j) == Expired(jobs[j]) /\ jobs[j].attempts = MaxAttempts

\* A pending job comes to an end, whatever crashes, route failures and deferrals
\* it meets.
EveryJobResolves ==
  \A j \in Jobs :
    jobs[j].status = "pending" ~>
      (jobs[j].status \in {"succeeded", "failed", "deleted"} \/ Exhausted(j))

\* "To keep them in the queue while providers warm up, set ...=defer" (provider
\* operations playbook, line 139): a deferred job is still in the queue when its
\* delay is over, so a worker takes it again.
DeferredIsTriedAgain ==
  \A j \in Jobs : jobs[j].owner = Gate ~> jobs[j].owner # Gate

-------------------------------------------------------------------------------
(* Refinement *)

Repository == INSTANCE EmbeddingJobs

\* The program changes its table only by calls of the repository.
ImplementsRepository == Repository!Spec

Holder(j) == {w \in Workers : held[w] = j}

AnyOf(S) == CHOOSE x \in S : TRUE

\* A deferred job is lost like one whose worker crashed: both come back when the
\* time in lease_expires_at has passed.
QueuePlace ==
  [j \in Jobs |->
     CASE jobs[j].status = "absent" -> "absent"
       [] jobs[j].status = "pending" -> "waiting"
       [] jobs[j].status = "running" -> IF Holder(j) = {} THEN "lost" ELSE "working"
       [] jobs[j].status = "succeeded" -> "done"
       [] jobs[j].status = "deleted" -> "dropped"
       [] OTHER -> "failed"]

QueueWorker ==
  [j \in Jobs |-> IF Exists(jobs[j]) /\ Holder(j) # {} THEN AnyOf(Holder(j)) ELSE NoOne]

QueueTries == [j \in Jobs |-> jobs[j].attempts]

Queue == INSTANCE WorkQueue
  WITH Items <- Jobs, Budget <- MaxAttempts,
       place <- QueuePlace, worker <- QueueWorker, tries <- QueueTries

\* As long as no lease runs out under a worker at work, chunks are embedded by one
\* worker at a time and within the budget, as WorkQueue says.
ImplementsQueue == Queue!Init /\ [][overrun' = {} => Queue!Next]_(Queue!vars)

===============================================================================
