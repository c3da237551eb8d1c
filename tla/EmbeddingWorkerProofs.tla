------------------------- MODULE EmbeddingWorkerProofs -------------------------
(***************************************************************************)
(* Theorems about EmbeddingWorker, for every set of chunks, profiles and   *)
(* workers, any number of routes and every MaxAttempts.  The first part    *)
(* holds for any timing, zombies included; the last one is about the jobs  *)
(* whose lease never ran out under a worker at work.                       *)
(*                                                                         *)
(* A worker stores its vector without looking at its job again.  That a    *)
(* job does not succeed without its vector, or come back from the dead,    *)
(* rests on the chunk: a worker stores only for a chunk that is live, a    *)
(* deleted job has none, and a chunk that was replaced never is live       *)
(* again.                                                                  *)
(***************************************************************************)
EXTENDS EmbeddingWorker, FiniteSetTheorems, TLAPS

\* Where each worker is and what it holds.
Places ==
  /\ pc \in [Workers -> {"idle", "claimed", "embedding", "deferring", "failing"}]
  /\ held \in [Workers -> Jobs \union {NoJob}]
  /\ left \in [Workers -> 0..(MaxRoutes + 1)]
  /\ overrun \in SUBSET Jobs
  /\ \A w \in Workers : /\ pc[w] = "idle" <=> held[w] = NoJob
                        /\ pc[w] = "embedding" => left[w] > 0

\* What every row satisfies.
Sound(r) ==
  /\ r \in Row
  /\ r.status = "pending" => r.attempts < MaxAttempts

Rows ==
  /\ jobs \in [Jobs -> Row]
  /\ before \in SUBSET (Jobs \X Jobs)
  /\ \A j \in Jobs : Sound(jobs[j])

\* The chunk of a deleted job is gone.
ChunksGo ==
  /\ live \in SUBSET Chunks
  /\ vectors \in SUBSET Jobs
  /\ \A j \in Jobs : jobs[j].status = "deleted" => j[1] \notin live

\* A held job was inserted.
Working ==
  \A w \in Workers : held[w] \in Jobs => jobs[held[w]].status # "absent"

Inv == Places /\ Rows /\ ChunksGo /\ Working /\ SucceededHasVector

-------------------------------------------------------------------------------
(* Rows *)

LEMMA NewRowsSound == Sound(NoRow) /\ Sound(CreatedRow) /\ Sound(DeletedRow)
<1>1. MaxAttempts \in Nat /\ 0 < MaxAttempts
  BY MaxAttemptsAssumption
<1>2. NoRow \in Row
  BY <1>1 DEF Row, NoRow
<1>3. CreatedRow \in Row /\ DeletedRow \in Row
  BY <1>2 DEF Row, CreatedRow, DeletedRow, Status
<1> QED
  BY <1>1, <1>2, <1>3 DEF Sound, NoRow, CreatedRow, DeletedRow

\* What each statement makes of a row.
LEMMA ClaimedRowSound ==
  ASSUME NEW r, Sound(r), r.attempts < MaxAttempts, NEW w \in Workers
  PROVE  /\ Sound(ClaimedRow(r, w))
         /\ ClaimedRow(r, w).status = "running" /\ ClaimedRow(r, w).owner = w
         /\ ClaimedRow(r, w).lease = "live"
         /\ ClaimedRow(r, w).attempts = r.attempts + 1
<1>1. r.attempts + 1 \in 0..MaxAttempts
  BY MaxAttemptsAssumption DEF Sound, Row
<1> QED
  BY <1>1 DEF Sound, Row, ClaimedRow, Status

LEMMA SettledRowSound ==
  ASSUME NEW r, Sound(r), NEW outcome \in {"succeeded", "failed"}
  PROVE  /\ Sound(SettledRow(r, outcome))
         /\ SettledRow(r, outcome).status = outcome
         /\ SettledRow(r, outcome).attempts = r.attempts
  BY DEF Sound, Row, SettledRow, Status

LEMMA DeferredRowSound ==
  ASSUME NEW r, Sound(r)
  PROVE  /\ Sound(DeferredRow(r))
         /\ DeferredRow(r).status = "running"
         /\ DeferredRow(r).attempts = r.attempts
  BY DEF Sound, Row, DeferredRow, Status

LEMMA PendingRowSound ==
  ASSUME NEW r, Sound(r), r.attempts < MaxAttempts
  PROVE  /\ Sound(PendingRow(r))
         /\ PendingRow(r).status = "pending"
         /\ PendingRow(r).attempts = r.attempts
  BY DEF Sound, Row, PendingRow, Status

LEMMA LeaseRowSound ==
  ASSUME NEW r, Sound(r)
  PROVE  /\ Sound([r EXCEPT !.lease = "expired"])
         /\ [r EXCEPT !.lease = "expired"].status = r.status
         /\ [r EXCEPT !.lease = "expired"].attempts = r.attempts
  BY DEF Sound, Row

\* What a claim may take.
LEMMA ClaimableHasAttempt ==
  ASSUME Rows, NEW visible \in SUBSET Jobs, NEW j \in ClaimNext(jobs, before, visible)
  PROVE  /\ j \in Jobs /\ jobs[j].attempts < MaxAttempts
         /\ jobs[j].status = "pending" \/ Expired(jobs[j])
  BY DEF ClaimNext, Reclaimable, Expired, Sound, Rows

-------------------------------------------------------------------------------
(* What a step does to one job *)

\* The steps that change rows: none, one row, or the rows of chunks that come and go.
\* An inserted row is never taken back, a deleted row stays deleted, a row succeeds
\* with its vector only, and only a claim changes the attempts.
RowStep(j) ==
  /\ Sound(jobs'[j])
  /\ jobs[j].status # "absent" => jobs'[j].status # "absent"
  /\ jobs'[j].status = "absent" => jobs'[j].attempts = jobs[j].attempts
  /\ jobs[j].status = "deleted" => jobs'[j].status = "deleted"
  /\ jobs'[j].status = "succeeded" =>
       \/ jobs[j].status = "succeeded" /\ (j \in vectors => j \in vectors')
            /\ (j[1] \in live => j[1] \in live')
       \/ j \in vectors' /\ j[1] \in live'
  /\ jobs'[j].status = "deleted" =>
       \/ jobs[j].status = "deleted" /\ (j[1] \in live' => j[1] \in live)
       \/ j[1] \notin live'

LEMMA JobType == ASSUME NEW j \in Jobs PROVE j[1] \in Chunks /\ j[2] \in Profiles /\ j = <<j[1], j[2]>>
  BY DEF Jobs

\* A worker that is not idle holds a job.
LEMMA HoldsJob ==
  ASSUME Places, NEW w \in Workers, pc[w] # "idle"
  PROVE  held[w] \in Jobs
  BY DEF Places

\* A row that stays, with vectors and chunks that stay.
LEMMA SameRow ==
  ASSUME Rows, NEW j \in Jobs, jobs'[j] = jobs[j], live' = live, vectors \subseteq vectors'
  PROVE  RowStep(j)
  BY DEF RowStep, Rows

LEMMA IngestStep ==
  ASSUME Inv, NEW old \in SUBSET live, NEW new \in SUBSET Chunks, NEW active \in SUBSET Profiles,
         Ingest(old, new, active), NEW j \in Jobs
  PROVE  RowStep(j)
<1>1. /\ \A c \in new : c \notin live /\ \A p \in Profiles : jobs[<<c, p>>] = NoRow
      /\ live' = (live \ old) \union new
      /\ vectors' = vectors \ (old \X Profiles)
      /\ jobs'[j] = CASE j \in new \X active -> CreatedRow
                      [] j \in old \X Profiles -> DeletedRow
                      [] OTHER -> jobs[j]
  BY DEF Ingest
<1>2. j[1] \in Chunks /\ j[2] \in Profiles /\ j = <<j[1], j[2]>>
  BY JobType
<1>3. j \in new \X active => j[1] \in new /\ j \notin old \X Profiles
  BY <1>1, <1>2
<1>4. j[1] \in new => jobs[j].status = "absent"
  BY <1>1, <1>2 DEF NoRow
<1>5. CASE j \in new \X active
  BY <1>1, <1>3, <1>4, <1>5, NewRowsSound DEF RowStep, CreatedRow, NoRow
<1>6. CASE j \in old \X Profiles
  <2>1. j[1] \in old /\ j[1] \notin new
    BY <1>1, <1>2, <1>6
  <2>2. jobs'[j] = DeletedRow
    BY <1>1, <1>3, <1>6
  <2> QED
    BY <1>1, <2>1, <2>2, NewRowsSound DEF RowStep, DeletedRow, NoRow
<1>7. CASE j \notin new \X active /\ j \notin old \X Profiles
  <2>1. jobs'[j] = jobs[j] /\ (j \in vectors => j \in vectors') /\ j[1] \notin old
    BY <1>1, <1>2, <1>7
  <2>2. j[1] \in live => j[1] \in live'
    BY <1>1, <2>1
  <2>3. jobs[j].status = "deleted" /\ j[1] \in live' => j[1] \in live
    BY <1>1, <1>4
  <2> QED
    BY <2>1, <2>2, <2>3 DEF RowStep, Inv, Rows
<1> QED
  BY <1>5, <1>6, <1>7

LEMMA ReconcileStep ==
  ASSUME Inv, NEW active \in SUBSET Profiles, Reconcile(active), NEW j \in Jobs
  PROVE  RowStep(j)
<1>1. UNCHANGED <<live, vectors>>
  BY DEF Reconcile
<1>2. jobs'[j] = jobs[j] \/ (jobs[j].status = "absent" /\ jobs'[j] = CreatedRow)
  BY DEF Reconcile
<1>3. CASE jobs'[j] = jobs[j]
  BY <1>1, <1>3, SameRow DEF Inv
<1>4. CASE jobs[j].status = "absent" /\ jobs'[j] = CreatedRow
  BY <1>4, NewRowsSound DEF RowStep, CreatedRow, NoRow
<1> QED
  BY <1>2, <1>3, <1>4

\* The other steps change one row, and no chunk.
LEMMA OneRowStep ==
  ASSUME Rows, NEW k \in Jobs, NEW r, jobs' = [jobs EXCEPT ![k] = r], live' = live,
         vectors \subseteq vectors', Sound(r),
         Exists(jobs[k]), r.status \in {"pending", "running", "failed", "succeeded"},
         r.status = "succeeded" =>
           jobs[k].status = "succeeded" \/ (k \in vectors' /\ k[1] \in live),
         NEW j \in Jobs
  PROVE  RowStep(j)
<1>1. CASE j = k
  <2>1. jobs'[j] = r
    BY <1>1 DEF Rows
  <2> QED
    BY <1>1, <2>1 DEF RowStep, Exists, Status
<1>2. CASE j # k
  BY <1>2, SameRow DEF Rows
<1> QED
  BY <1>1, <1>2

\* A claim, once the job is chosen.
LEMMA ClaimStep ==
  ASSUME Rows, NEW w \in Workers, ClaimNextJob(w)
  PROVE  \E k \in Jobs :
           /\ jobs[k].attempts < MaxAttempts
           /\ jobs[k].status = "pending" \/ Expired(jobs[k])
           /\ jobs' = [jobs EXCEPT ![k] = ClaimedRow(jobs[k], w)]
           /\ held' = [held EXCEPT ![w] = k]
<1>1. PICK profiles \in {Profiles} \union {{p} : p \in Profiles} :
        \E k \in ClaimNext(jobs, before, Chunks \X profiles) :
          /\ jobs' = [jobs EXCEPT ![k] = ClaimedRow(jobs[k], w)]
          /\ held' = [held EXCEPT ![w] = k]
  BY DEF ClaimNextJob
<1>2. Chunks \X profiles \in SUBSET Jobs
  BY DEF Jobs
<1> QED
  BY <1>1, <1>2, ClaimableHasAttempt

LEMMA NextRowStep ==
  ASSUME Inv, [Next]_vars, NEW j \in Jobs
  PROVE  RowStep(j)
<1>0. /\ \A k \in Jobs : Sound(jobs[k])
      /\ Rows /\ jobs \in [Jobs -> Row]
  BY DEF Inv, Rows
<1>1. ASSUME NEW old \in SUBSET live, NEW new \in SUBSET Chunks,
             NEW active \in SUBSET Profiles, Ingest(old, new, active)
      PROVE  RowStep(j)
  BY <1>1, IngestStep
<1>2. ASSUME NEW active \in SUBSET Profiles, Reconcile(active) PROVE RowStep(j)
  BY <1>2, ReconcileStep
<1>3. ASSUME NEW k \in Jobs, RetryApi(k) \/ ReleaseApi(k) PROVE RowStep(j)
  <2>1. /\ jobs' = [jobs EXCEPT ![k] = PendingRow(jobs[k])]
        /\ live' = live /\ vectors' = vectors
        /\ Exists(jobs[k]) /\ jobs[k].attempts < MaxAttempts
    BY <1>3 DEF RetryApi, ReleaseApi, Retryable, Reclaimable, Expired, Exists, Status
  <2>2. Sound(PendingRow(jobs[k])) /\ PendingRow(jobs[k]).status = "pending"
    BY <1>0, <2>1, PendingRowSound
  <2> QED
    BY <1>0, <2>1, <2>2, OneRowStep
<1>4. ASSUME NEW k \in Jobs, LeaseExpires(k) PROVE RowStep(j)
  <2> DEFINE r == [jobs[k] EXCEPT !.lease = "expired"]
  <2>1. Sound(r) /\ r.status = jobs[k].status /\ r.attempts = jobs[k].attempts
    BY <1>0, LeaseRowSound
  <2>2. jobs' = [jobs EXCEPT ![k] = r] /\ live' = live /\ vectors' = vectors
    BY <1>4 DEF LeaseExpires
  <2> HIDE DEF r
  <2>3. /\ jobs'[j].status = jobs[j].status /\ Sound(jobs'[j])
        /\ jobs'[j].attempts = jobs[j].attempts
    BY <1>0, <2>1, <2>2
  <2> QED
    BY <2>2, <2>3 DEF RowStep
<1>5. ASSUME NEW w \in Workers, ClaimNextJob(w) PROVE RowStep(j)
  <2>1. PICK k \in Jobs : /\ jobs[k].attempts < MaxAttempts
                          /\ jobs[k].status = "pending" \/ Expired(jobs[k])
                          /\ jobs' = [jobs EXCEPT ![k] = ClaimedRow(jobs[k], w)]
    BY <1>0, <1>5, ClaimStep
  <2>2. Exists(jobs[k])
    BY <2>1 DEF Expired, Exists, Status
  <2>3. Sound(ClaimedRow(jobs[k], w)) /\ ClaimedRow(jobs[k], w).status = "running"
    BY <1>0, <2>1, ClaimedRowSound
  <2>4. live' = live /\ vectors' = vectors
    BY <1>5 DEF ClaimNextJob
  <2> QED
    BY <1>0, <2>1, <2>2, <2>3, <2>4, OneRowStep
<1>6. ASSUME NEW w \in Workers, Store(w) PROVE RowStep(j)
  <2> DEFINE k == held[w]
             r == SettledRow(jobs[k], "succeeded")
  <2>1. k \in Jobs
    BY <1>6, HoldsJob DEF Store, Inv
  <2>2. Sound(r) /\ r.status = "succeeded"
    BY <1>0, <2>1, SettledRowSound
  <2>3. Exists(jobs[k])
    <3>1. jobs[k].status # "absent" /\ jobs[k].status # "deleted"
      BY <1>6, <2>1 DEF Store, Inv, Working, ChunksGo
    <3>2. jobs[k].status \in Status \union {"absent", "deleted"}
      BY <1>0, <2>1 DEF Row
    <3> QED
      BY <3>1, <3>2 DEF Exists
  <2>4. /\ jobs' = [jobs EXCEPT ![k] = r] /\ live' = live
        /\ vectors' = vectors \union {k} /\ k[1] \in live
    BY <1>6 DEF Store
  <2> HIDE DEF k, r
  <2> QED
    BY <1>0, <2>1, <2>2, <2>3, <2>4, OneRowStep
<1>7. ASSUME NEW w \in Workers, FailJob(w) \/ DeferJob(w) PROVE RowStep(j)
  <2> DEFINE k == held[w]
  <2>1. k \in Jobs
    BY <1>7, HoldsJob DEF FailJob, DeferJob, Inv
  <2>2. live' = live /\ vectors' = vectors
    BY <1>7 DEF FailJob, DeferJob
  <2>3. CASE Exists(jobs[k])
    <3>1. PICK r \in {SettledRow(jobs[k], "failed"), DeferredRow(jobs[k])} :
            jobs' = [jobs EXCEPT ![k] = r]
      BY <1>7, <2>3 DEF FailJob, DeferJob
    <3>2. Sound(r) /\ r.status \in {"failed", "running"}
      BY <1>0, <2>1, SettledRowSound, DeferredRowSound
    <3> HIDE DEF k
    <3> QED
      BY <1>0, <2>1, <2>2, <2>3, <3>1, <3>2, OneRowStep
  <2>4. CASE ~Exists(jobs[k])
    <3>1. jobs' = jobs
      BY <1>0, <1>7, <2>4, <2>1 DEF FailJob, DeferJob
    <3> QED
      BY <1>0, <2>2, <3>1, SameRow
  <2> QED
    BY <2>3, <2>4
<1>8. ASSUME NEW w \in Workers, SelectRoutes(w) \/ RouteFails(w) \/ Raise(w) \/ Crash(w)
      PROVE  RowStep(j)
  <2>1. jobs' = jobs /\ live' = live /\ vectors' = vectors
    BY <1>8 DEF SelectRoutes, RouteFails, Raise, Crash
  <2> QED
    BY <1>0, <2>1, SameRow
<1>9. CASE UNCHANGED vars
  BY <1>0, <1>9, SameRow DEF vars
<1> QED
  BY <1>1, <1>2, <1>3, <1>4, <1>5, <1>6, <1>7, <1>8, <1>9 DEF Next, WorkerStep

-------------------------------------------------------------------------------
(* The inductive invariant *)

LEMMA InitInv == Init => Inv
<1> SUFFICES ASSUME Init PROVE Inv
  OBVIOUS
<1>1. Places
  BY MaxRoutesAssumption DEF Init, Places
<1>2. Rows
  BY NewRowsSound DEF Init, Rows, Sound
<1>3. ChunksGo /\ SucceededHasVector
  BY DEF Init, ChunksGo, SucceededHasVector, NoRow
<1>4. Working
  BY NoJobAssumption DEF Init, Working
<1> QED
  BY <1>1, <1>2, <1>3, <1>4 DEF Inv

LEMMA NextPlaces == Inv /\ [Next]_vars => Places'
<1> SUFFICES ASSUME Inv, [Next]_vars PROVE Places'
  OBVIOUS
<1> USE NoJobAssumption, MaxRoutesAssumption DEF Places, Inv
<1>1. ASSUME NEW old \in SUBSET live, NEW new \in SUBSET Chunks,
             NEW active \in SUBSET Profiles, Ingest(old, new, active) \/ Reconcile(active)
      PROVE  Places'
  BY <1>1 DEF Ingest, Reconcile
<1>2. ASSUME NEW k \in Jobs, RetryApi(k) \/ ReleaseApi(k) \/ LeaseExpires(k) PROVE Places'
  BY <1>2 DEF RetryApi, ReleaseApi, LeaseExpires
<1>3. ASSUME NEW w \in Workers, ClaimNextJob(w) PROVE Places'
  <2>1. PICK k \in Jobs : held' = [held EXCEPT ![w] = k]
    BY <1>3, ClaimStep
  <2> QED
    BY <1>3, <2>1 DEF ClaimNextJob, Goto
<1>4. ASSUME NEW w \in Workers, SelectRoutes(w) PROVE Places'
  <2>0. PICK n \in 0..MaxRoutes : \E m \in 0..n :
          IF n > 0 /\ m = 0
          THEN /\ Goto(w, IF DeferBlocked THEN "deferring" ELSE "failing")
               /\ UNCHANGED left
          ELSE /\ Goto(w, "embedding")
               /\ left' = [left EXCEPT ![w] = IF m = 0 THEN 1 ELSE m]
    BY <1>4 DEF SelectRoutes
  <2>1. PICK m \in 0..n :
          IF n > 0 /\ m = 0
          THEN /\ Goto(w, IF DeferBlocked THEN "deferring" ELSE "failing")
               /\ UNCHANGED left
          ELSE /\ Goto(w, "embedding")
               /\ left' = [left EXCEPT ![w] = IF m = 0 THEN 1 ELSE m]
    BY <2>0
  <2>2. (IF m = 0 THEN 1 ELSE m) \in 1..(MaxRoutes + 1)
    OBVIOUS
  <2> QED
    BY <1>4, <2>1, <2>2 DEF SelectRoutes, Goto
<1>5. ASSUME NEW w \in Workers, Store(w) \/ FailJob(w) \/ DeferJob(w) \/ Crash(w) PROVE Places'
  BY <1>5 DEF Store, FailJob, DeferJob, Crash, Leave
<1>6. ASSUME NEW w \in Workers, RouteFails(w) PROVE Places'
  <2>1. left[w] \in 1..(MaxRoutes + 1)
    BY <1>6 DEF RouteFails
  <2>2. left[w] - 1 \in 0..(MaxRoutes + 1) /\ (left[w] > 1 => left[w] - 1 > 0)
    BY <2>1
  <2> QED
    BY <1>6, <2>2 DEF RouteFails, Goto
<1>7. ASSUME NEW w \in Workers, Raise(w) PROVE Places'
  BY <1>7 DEF Raise, Goto
<1>8. CASE UNCHANGED vars
  BY <1>8 DEF vars
<1> QED
  BY <1>1, <1>2, <1>3, <1>4, <1>5, <1>6, <1>7, <1>8 DEF Next, WorkerStep

\* What a table's types need beside the rows themselves.
LEMMA NextTables ==
  ASSUME Inv, [Next]_vars
  PROVE  /\ DOMAIN jobs' = Jobs /\ jobs' = [j \in Jobs |-> jobs'[j]]
         /\ before' \in SUBSET (Jobs \X Jobs)
         /\ live' \in SUBSET Chunks
         /\ vectors' \in SUBSET Jobs
<1> DEFINE Goal == /\ DOMAIN jobs' = Jobs /\ jobs' = [j \in Jobs |-> jobs'[j]]
                   /\ before' \in SUBSET (Jobs \X Jobs)
                   /\ live' \in SUBSET Chunks
                   /\ vectors' \in SUBSET Jobs
<1> USE DEF Inv, Rows, ChunksGo
<1>1. ASSUME NEW old \in SUBSET live, NEW new \in SUBSET Chunks,
             NEW active \in SUBSET Profiles, Ingest(old, new, active)
      PROVE  Goal
  <2>1. new \X active \subseteq Jobs
    BY DEF Jobs
  <2>2. Created(jobs, before, new \X active) \subseteq Jobs \X Jobs
    BY <2>1 DEF Created
  <2> QED
    BY <1>1, <2>2 DEF Ingest
<1>2. ASSUME NEW active \in SUBSET Profiles, Reconcile(active) PROVE Goal
  <2>1. live \X active \subseteq Jobs
    BY DEF Jobs
  <2> DEFINE new == {j \in live \X active : jobs[j].status = "absent"}
  <2>2. Created(jobs, before, new) \subseteq Jobs \X Jobs
    BY <2>1 DEF Created
  <2> QED
    BY <1>2, <2>2 DEF Reconcile
<1>3. ASSUME NEW k \in Jobs, RetryApi(k) \/ ReleaseApi(k) \/ LeaseExpires(k) PROVE Goal
  BY <1>3 DEF RetryApi, ReleaseApi, LeaseExpires
<1>4. ASSUME NEW w \in Workers, ClaimNextJob(w) PROVE Goal
  <2>1. PICK k \in Jobs : jobs' = [jobs EXCEPT ![k] = ClaimedRow(jobs[k], w)]
    BY <1>4, ClaimStep
  <2> QED
    BY <1>4, <2>1 DEF ClaimNextJob
<1>5. ASSUME NEW w \in Workers, Store(w) PROVE Goal
  <2>1. held[w] \in Jobs
    BY <1>5, HoldsJob DEF Store
  <2> QED
    BY <1>5, <2>1 DEF Store
<1>6. ASSUME NEW w \in Workers, FailJob(w) \/ DeferJob(w) PROVE Goal
  BY <1>6 DEF FailJob, DeferJob
<1>7. ASSUME NEW w \in Workers, SelectRoutes(w) \/ RouteFails(w) \/ Raise(w) \/ Crash(w)
      PROVE  Goal
  BY <1>7 DEF SelectRoutes, RouteFails, Raise, Crash
<1>8. CASE UNCHANGED vars
  BY <1>8 DEF vars
<1> QED
  BY <1>1, <1>2, <1>3, <1>4, <1>5, <1>6, <1>7, <1>8 DEF Next, WorkerStep

\* What a worker holds: nothing new, or the job it claims.
LEMMA HeldStep ==
  ASSUME Inv, [Next]_vars, NEW u \in Workers, held'[u] \in Jobs
  PROVE  \/ held'[u] = held[u]
         \/ /\ pc[u] = "idle"
            /\ jobs' = [jobs EXCEPT ![held'[u]] = ClaimedRow(jobs[held'[u]], u)]
            /\ jobs[held'[u]].attempts < MaxAttempts
            /\ jobs[held'[u]].status = "pending" \/ Expired(jobs[held'[u]])
<1> DEFINE Goal == \/ held'[u] = held[u]
                   \/ /\ pc[u] = "idle"
                      /\ jobs' = [jobs EXCEPT ![held'[u]] = ClaimedRow(jobs[held'[u]], u)]
                      /\ jobs[held'[u]].attempts < MaxAttempts
                      /\ jobs[held'[u]].status = "pending" \/ Expired(jobs[held'[u]])
<1>0. held \in [Workers -> Jobs \union {NoJob}] /\ NoJob \notin Jobs /\ Rows
  BY NoJobAssumption DEF Inv, Places
<1>1. ASSUME NEW w \in Workers, ClaimNextJob(w) PROVE Goal
  <2>1. PICK k \in Jobs : /\ jobs[k].attempts < MaxAttempts
                          /\ jobs[k].status = "pending" \/ Expired(jobs[k])
                          /\ jobs' = [jobs EXCEPT ![k] = ClaimedRow(jobs[k], w)]
                          /\ held' = [held EXCEPT ![w] = k]
    BY <1>0, <1>1, ClaimStep
  <2>2. CASE u = w
    BY <1>0, <1>1, <2>1, <2>2 DEF ClaimNextJob
  <2>3. CASE u # w
    BY <1>0, <2>1, <2>3
  <2> QED
    BY <2>2, <2>3
<1>2. ASSUME NEW w \in Workers, Store(w) \/ FailJob(w) \/ DeferJob(w) \/ Crash(w) PROVE Goal
  BY <1>0, <1>2 DEF Store, FailJob, DeferJob, Crash, Leave
<1>3. ASSUME NEW w \in Workers, SelectRoutes(w) \/ RouteFails(w) \/ Raise(w) PROVE Goal
  BY <1>3 DEF SelectRoutes, RouteFails, Raise
<1>4. ASSUME NEW old \in SUBSET live, NEW new \in SUBSET Chunks,
             NEW active \in SUBSET Profiles, Ingest(old, new, active) \/ Reconcile(active)
      PROVE  Goal
  BY <1>4 DEF Ingest, Reconcile
<1>5. ASSUME NEW k \in Jobs, RetryApi(k) \/ ReleaseApi(k) \/ LeaseExpires(k) PROVE Goal
  BY <1>5 DEF RetryApi, ReleaseApi, LeaseExpires
<1>6. CASE UNCHANGED vars
  BY <1>6 DEF vars
<1> QED
  BY <1>1, <1>2, <1>3, <1>4, <1>5, <1>6 DEF Next, WorkerStep

LEMMA NextInv == Inv /\ [Next]_vars => Inv'
<1> SUFFICES ASSUME Inv, [Next]_vars PROVE Inv'
  OBVIOUS
<1>1. \A j \in Jobs : RowStep(j)
  BY NextRowStep
<1>2. Rows'
  BY <1>1, NextTables DEF Rows, RowStep, Sound
<1>3. ChunksGo'
  BY <1>1, NextTables DEF ChunksGo, RowStep, Inv
<1>4. SucceededHasVector'
  BY <1>1 DEF SucceededHasVector, RowStep, Inv
<1>5. Working'
  <2> SUFFICES ASSUME NEW u \in Workers, held'[u] \in Jobs
               PROVE  jobs'[held'[u]].status # "absent"
    BY DEF Working
  <2>1. CASE held'[u] = held[u]
    BY <2>1, <1>1 DEF Inv, Working, RowStep
  <2>2. CASE held'[u] # held[u]
    <3>1. /\ jobs' = [jobs EXCEPT ![held'[u]] = ClaimedRow(jobs[held'[u]], u)]
          /\ jobs[held'[u]].attempts < MaxAttempts
      BY <2>2, HeldStep
    <3>2. jobs'[held'[u]] = ClaimedRow(jobs[held'[u]], u) /\ Sound(jobs[held'[u]])
      BY <3>1 DEF Inv, Rows
    <3>3. jobs'[held'[u]].status = "running"
      BY <3>1, <3>2, ClaimedRowSound
    <3> QED
      BY <3>3
  <2> QED
    BY <2>1, <2>2
<1> QED
  BY <1>2, <1>3, <1>4, <1>5, NextPlaces DEF Inv

LEMMA InvHolds == Spec => []Inv
  BY InitInv, NextInv, PTL DEF Spec

\* The types hold for any timing, zombies included.
THEOREM TypeCorrect == Spec => []TypeOK
<1>1. Inv => TypeOK
  BY DEF Inv, Places, Rows, ChunksGo, TypeOK
<1> QED
  BY <1>1, InvHolds, PTL

\* No late worker, failover, deferral or replacement of chunks leaves a succeeded job
\* without the vector of a chunk that exists.
THEOREM SucceededHasVectorHolds == Spec => []SucceededHasVector
<1>1. Inv => SucceededHasVector
  BY DEF Inv
<1> QED
  BY <1>1, InvHolds, PTL

-------------------------------------------------------------------------------
(* Late workers are counted *)

\* Every holder of a job has spent one of its attempts.
Counted ==
  \A j \in Jobs :
    /\ IsFiniteSet(Holder(j))
    /\ Exists(jobs[j]) => Cardinality(Holder(j)) <= jobs[j].attempts

CountInv == Inv /\ Counted

\* The number of attempts of an inserted job never falls.
LEMMA AttemptsGrow ==
  ASSUME Inv, [Next]_vars, NEW j \in Jobs, Exists(jobs'[j])
  PROVE  \/ jobs[j].status = "absent" /\ jobs'[j].attempts = 0
         \/ Exists(jobs[j]) /\ jobs'[j].attempts >= jobs[j].attempts
<1> DEFINE Goal == \/ jobs[j].status = "absent" /\ jobs'[j].attempts = 0
                   \/ Exists(jobs[j]) /\ jobs'[j].attempts >= jobs[j].attempts
<1>0. /\ \A k \in Jobs : Sound(jobs[k])
      /\ Rows /\ jobs \in [Jobs -> Row]
      /\ \A k \in Jobs : jobs[k].attempts \in Nat
  BY MaxAttemptsAssumption DEF Inv, Rows, Row
<1>1. ASSUME jobs'[j] = jobs[j] PROVE Goal
  BY <1>0, <1>1
<1>2. ASSUME NEW old \in SUBSET live, NEW new \in SUBSET Chunks,
             NEW active \in SUBSET Profiles, Ingest(old, new, active)
      PROVE  Goal
  <2>1. \/ jobs'[j] = jobs[j]
        \/ jobs'[j] = DeletedRow
        \/ j \in new \X active /\ jobs'[j] = CreatedRow
    BY <1>2 DEF Ingest
  <2>2. CASE jobs'[j] = DeletedRow
    BY <2>2 DEF DeletedRow, NoRow, Exists, Status
  <2>3. CASE j \in new \X active /\ jobs'[j] = CreatedRow
    <3>1. jobs[j] = NoRow
      BY <1>2, <2>3, JobType DEF Ingest
    <3> QED
      BY <2>3, <3>1 DEF NoRow, CreatedRow
  <2> QED
    BY <1>1, <2>1, <2>2, <2>3
<1>3. ASSUME NEW active \in SUBSET Profiles, Reconcile(active) PROVE Goal
  <2>1. jobs'[j] = jobs[j] \/ (jobs[j].status = "absent" /\ jobs'[j] = CreatedRow)
    BY <1>3 DEF Reconcile
  <2> QED
    BY <1>1, <2>1 DEF CreatedRow, NoRow
<1>4. ASSUME NEW k \in Jobs, NEW r, jobs' = [jobs EXCEPT ![k] = r], Exists(jobs[k]),
             r.attempts >= jobs[k].attempts
      PROVE  Goal
  BY <1>0, <1>1, <1>4
<1>5. ASSUME NEW k \in Jobs, RetryApi(k) \/ ReleaseApi(k) PROVE Goal
  <2>1. /\ jobs' = [jobs EXCEPT ![k] = PendingRow(jobs[k])]
        /\ Exists(jobs[k]) /\ jobs[k].attempts < MaxAttempts
    BY <1>5 DEF RetryApi, ReleaseApi, Retryable, Reclaimable, Expired, Exists, Status
  <2>2. PendingRow(jobs[k]).attempts >= jobs[k].attempts
    BY <1>0, <2>1, PendingRowSound
  <2> QED
    BY <1>4, <2>1, <2>2
<1>6. ASSUME NEW k \in Jobs, LeaseExpires(k) PROVE Goal
  <2> DEFINE r == [jobs[k] EXCEPT !.lease = "expired"]
  <2>1. r.attempts = jobs[k].attempts /\ r.status = jobs[k].status
    BY <1>0, LeaseRowSound
  <2>2. jobs' = [jobs EXCEPT ![k] = r]
    BY <1>6 DEF LeaseExpires
  <2> HIDE DEF r
  <2>3. CASE j = k
    BY <1>0, <2>1, <2>2, <2>3 DEF Exists
  <2>4. CASE j # k
    BY <1>0, <1>1, <2>2, <2>4
  <2> QED
    BY <2>3, <2>4
<1>7. ASSUME NEW w \in Workers, ClaimNextJob(w) PROVE Goal
  <2>1. PICK k \in Jobs : /\ jobs[k].attempts < MaxAttempts
                          /\ jobs[k].status = "pending" \/ Expired(jobs[k])
                          /\ jobs' = [jobs EXCEPT ![k] = ClaimedRow(jobs[k], w)]
    BY <1>0, <1>7, ClaimStep
  <2>2. Exists(jobs[k])
    BY <2>1 DEF Expired, Exists, Status
  <2>3. ClaimedRow(jobs[k], w).attempts = jobs[k].attempts + 1 /\ jobs[k].attempts \in Nat
    BY <1>0, <2>1, ClaimedRowSound
  <2>4. ClaimedRow(jobs[k], w).attempts >= jobs[k].attempts
    BY <2>3
  <2> QED
    BY <1>4, <2>1, <2>2, <2>4
<1>8. ASSUME NEW w \in Workers, Store(w) PROVE Goal
  <2>1. held[w] \in Jobs
    BY <1>8, HoldsJob DEF Store, Inv
  <2>2. /\ SettledRow(jobs[held[w]], "succeeded").attempts = jobs[held[w]].attempts
        /\ jobs' = [jobs EXCEPT ![held[w]] = SettledRow(jobs[held[w]], "succeeded")]
    BY <1>0, <1>8, <2>1, SettledRowSound DEF Store
  <2>3. Exists(jobs[held[w]])
    <3>1. /\ jobs[held[w]].status # "absent" /\ jobs[held[w]].status # "deleted"
          /\ jobs[held[w]].status \in Status \union {"absent", "deleted"}
      BY <1>0, <1>8, <2>1 DEF Store, Inv, Working, ChunksGo, Row
    <3> QED
      BY <3>1 DEF Exists
  <2>4. SettledRow(jobs[held[w]], "succeeded").attempts >= jobs[held[w]].attempts
    BY <1>0, <2>1, <2>2
  <2> QED
    BY <1>4, <2>1, <2>2, <2>3, <2>4
<1>9. ASSUME NEW w \in Workers, FailJob(w) \/ DeferJob(w) PROVE Goal
  <2>1. held[w] \in Jobs
    BY <1>9, HoldsJob DEF FailJob, DeferJob, Inv
  <2>2. CASE Exists(jobs[held[w]])
    <3>1. PICK r \in {SettledRow(jobs[held[w]], "failed"), DeferredRow(jobs[held[w]])} :
            jobs' = [jobs EXCEPT ![held[w]] = r]
      BY <1>9, <2>2 DEF FailJob, DeferJob
    <3>2. r.attempts = jobs[held[w]].attempts
      BY <1>0, <2>1, SettledRowSound, DeferredRowSound
    <3>3. r.attempts >= jobs[held[w]].attempts
      BY <1>0, <2>1, <3>2
    <3> QED
      BY <1>4, <2>1, <2>2, <3>1, <3>3
  <2>3. CASE ~Exists(jobs[held[w]])
    <3>1. jobs' = jobs
      BY <1>0, <1>9, <2>1, <2>3 DEF FailJob, DeferJob
    <3> QED
      BY <1>1, <3>1
  <2> QED
    BY <2>2, <2>3
<1>10. ASSUME NEW w \in Workers, SelectRoutes(w) \/ RouteFails(w) \/ Raise(w) \/ Crash(w)
       PROVE  Goal
  BY <1>1, <1>10 DEF SelectRoutes, RouteFails, Raise, Crash
<1>11. CASE UNCHANGED vars
  BY <1>1, <1>11 DEF vars
<1> QED
  BY <1>2, <1>3, <1>5, <1>6, <1>7, <1>8, <1>9, <1>10, <1>11 DEF Next, WorkerStep

\* The holders of a job: those it had, or one more, who has claimed it.
LEMMA HoldersStep ==
  ASSUME Inv, [Next]_vars, NEW j \in Jobs
  PROVE  \/ Holder(j)' \subseteq Holder(j)
         \/ \E w \in Workers : /\ Holder(j)' \subseteq Holder(j) \union {w}
                              /\ jobs'[j].attempts = jobs[j].attempts + 1
                              /\ Exists(jobs[j])
<1>1. CASE \A u \in Workers : held'[u] = j => held[u] = j
  BY <1>1 DEF Holder
<1>2. CASE \E u \in Workers : held'[u] = j /\ held[u] # j
  <2>1. PICK u \in Workers : held'[u] = j /\ held[u] # j
    BY <1>2
  <2>2. /\ jobs' = [jobs EXCEPT ![j] = ClaimedRow(jobs[j], u)]
        /\ jobs[j].attempts < MaxAttempts
        /\ jobs[j].status = "pending" \/ Expired(jobs[j])
    BY <2>1, HeldStep
  <2>3. Sound(jobs[j]) /\ jobs'[j] = ClaimedRow(jobs[j], u)
    BY <2>2 DEF Inv, Rows
  <2>4. jobs'[j].attempts = jobs[j].attempts + 1 /\ jobs'[j].owner = u
    BY <2>2, <2>3, ClaimedRowSound
  <2>5. ASSUME NEW w \in Workers, held'[w] = j, w # u PROVE held[w] = j
    <3>1. ASSUME held[w] # j PROVE FALSE
      <4>1. jobs' = [jobs EXCEPT ![j] = ClaimedRow(jobs[j], w)]
        BY <2>5, <3>1, HeldStep
      <4>2. jobs'[j] = ClaimedRow(jobs[j], w)
        BY <4>1 DEF Inv, Rows
      <4>3. jobs'[j].owner = w
        BY <2>2, <2>3, <4>2, ClaimedRowSound
      <4> QED
        BY <2>4, <2>5, <4>3
    <3> QED
      BY <3>1
  <2>6. Holder(j)' \subseteq Holder(j) \union {u}
    BY <2>1, <2>5 DEF Holder
  <2>7. Exists(jobs[j])
    BY <2>2 DEF Expired, Exists, Status
  <2> QED
    BY <2>4, <2>6, <2>7
<1> QED
  BY <1>1, <1>2

LEMMA NextCounted == CountInv /\ [Next]_vars => Counted'
<1> SUFFICES ASSUME CountInv, [Next]_vars, NEW j \in Jobs
             PROVE  /\ IsFiniteSet(Holder(j))'
                    /\ Exists(jobs'[j]) => Cardinality(Holder(j)') <= jobs'[j].attempts
  BY DEF Counted
<1>0. /\ Inv /\ IsFiniteSet(Holder(j)) /\ Cardinality(Holder(j)) \in Nat
      /\ Exists(jobs[j]) => Cardinality(Holder(j)) <= jobs[j].attempts
  BY FS_CardinalityType DEF CountInv, Counted
<1>1. jobs[j].attempts \in Nat /\ jobs'[j].attempts \in Nat
  <2>1. Sound(jobs[j]) /\ Sound(jobs'[j])
    BY <1>0, NextRowStep DEF RowStep, Inv, Rows
  <2> QED
    BY <2>1, MaxAttemptsAssumption DEF Sound, Row
<1>2. CASE Holder(j)' \subseteq Holder(j)
  <2>1. IsFiniteSet(Holder(j)') /\ Cardinality(Holder(j)') <= Cardinality(Holder(j))
        /\ Cardinality(Holder(j)') \in Nat
    BY <1>0, <1>2, FS_Subset, FS_CardinalityType
  <2>2. ASSUME Exists(jobs'[j]) PROVE Cardinality(Holder(j)') <= jobs'[j].attempts
    <3>1. CASE jobs[j].status = "absent" /\ jobs'[j].attempts = 0
      <4>1. Holder(j)' = {}
        BY <1>0, <1>2, <3>1 DEF Inv, Working, Holder
      <4> QED
        BY <3>1, <4>1, FS_EmptySet
    <3>2. CASE Exists(jobs[j]) /\ jobs'[j].attempts >= jobs[j].attempts
      BY <1>0, <1>1, <2>1, <3>2
    <3> QED
      BY <1>0, <2>2, <3>1, <3>2, AttemptsGrow
  <2> QED
    BY <2>1, <2>2
<1>3. CASE \E w \in Workers : /\ Holder(j)' \subseteq Holder(j) \union {w}
                             /\ jobs'[j].attempts = jobs[j].attempts + 1
                             /\ Exists(jobs[j])
  <2>1. PICK w \in Workers : /\ Holder(j)' \subseteq Holder(j) \union {w}
                             /\ jobs'[j].attempts = jobs[j].attempts + 1
                             /\ Exists(jobs[j])
    BY <1>3
  <2>2. /\ IsFiniteSet(Holder(j) \union {w})
        /\ Cardinality(Holder(j) \union {w}) \in Nat
        /\ Cardinality(Holder(j) \union {w}) <= Cardinality(Holder(j)) + 1
    <3>1. IsFiniteSet(Holder(j) \union {w})
      BY <1>0, FS_AddElement
    <3>2. Cardinality(Holder(j) \union {w}) =
            IF w \in Holder(j) THEN Cardinality(Holder(j)) ELSE Cardinality(Holder(j)) + 1
      BY <1>0, FS_AddElement
    <3> QED
      BY <1>0, <3>1, <3>2
  <2>3. /\ IsFiniteSet(Holder(j)')
        /\ Cardinality(Holder(j)') <= Cardinality(Holder(j) \union {w})
        /\ Cardinality(Holder(j)') \in Nat
    BY <2>1, <2>2, FS_Subset, FS_CardinalityType
  <2> QED
    BY <1>0, <1>1, <2>1, <2>2, <2>3
<1> QED
  BY <1>0, <1>2, <1>3, HoldersStep

LEMMA InitCounted == Init => CountInv
<1> SUFFICES ASSUME Init PROVE CountInv
  OBVIOUS
<1>1. \A j \in Jobs : Holder(j) = {} /\ ~Exists(jobs[j])
  BY NoJobAssumption DEF Init, Holder, NoRow, Exists, Status
<1> QED
  BY <1>1, InitInv, FS_EmptySet DEF CountInv, Counted

\* However many leases run out, a job never has more workers than attempts it spent.
THEOREM HoldersSpentAttemptsHolds == Spec => []HoldersSpentAttempts
<1>1. Init => CountInv
  BY InitCounted
<1>2. CountInv /\ [Next]_vars => CountInv'
  BY NextInv, NextCounted DEF CountInv
<1>3. CountInv => HoldersSpentAttempts
  BY DEF CountInv, Counted, HoldersSpentAttempts, Holder
<1> QED
  BY <1>1, <1>2, <1>3, PTL DEF Spec

-------------------------------------------------------------------------------
(* The program is a client of the repository *)

\* The two modules are built from the same statements.
LEMMA SameRows ==
  /\ Repository!Jobs = Jobs
  /\ Repository!NoRow = NoRow /\ Repository!CreatedRow = CreatedRow
  /\ Repository!DeletedRow = DeletedRow
  /\ \A r : /\ Repository!Retryable(r) <=> Retryable(r)
            /\ Repository!Reclaimable(r) <=> Reclaimable(r)
            /\ Repository!Exists(r) <=> Exists(r)
            /\ Repository!PendingRow(r) = PendingRow(r)
            /\ Repository!DeferredRow(r) = DeferredRow(r)
  /\ \A r, w : Repository!ClaimedRow(r, w) = ClaimedRow(r, w)
  /\ \A r, o : Repository!SettledRow(r, o) = SettledRow(r, o)
  /\ \A rows, order, new : Repository!Created(rows, order, new) = Created(rows, order, new)
  /\ \A rows, order, v : Repository!ClaimNext(rows, order, v) = ClaimNext(rows, order, v)
<1>1. /\ Repository!Jobs = Jobs
      /\ Repository!NoRow = NoRow /\ Repository!CreatedRow = CreatedRow
      /\ Repository!DeletedRow = DeletedRow
  BY DEF Repository!Jobs, Jobs, Repository!NoRow, NoRow, Repository!CreatedRow, CreatedRow,
         Repository!DeletedRow, DeletedRow
<1>2. \A r : /\ Repository!Retryable(r) <=> Retryable(r)
             /\ Repository!Reclaimable(r) <=> Reclaimable(r)
  BY DEF Repository!Retryable, Retryable, Repository!Reclaimable, Reclaimable,
         Repository!Expired, Expired
<1>3. \A r : Repository!Exists(r) <=> Exists(r)
  BY DEF Repository!Exists, Exists, Repository!Status, Status
<1>4. \A r : /\ Repository!PendingRow(r) = PendingRow(r)
             /\ Repository!DeferredRow(r) = DeferredRow(r)
  BY DEF Repository!PendingRow, PendingRow, Repository!DeferredRow, DeferredRow
<1>5. /\ \A r, w : Repository!ClaimedRow(r, w) = ClaimedRow(r, w)
      /\ \A r, o : Repository!SettledRow(r, o) = SettledRow(r, o)
  BY DEF Repository!ClaimedRow, ClaimedRow, Repository!SettledRow, SettledRow
<1>6. \A rows, order, new : Repository!Created(rows, order, new) = Created(rows, order, new)
  BY DEF Repository!Created, Created
<1>7. \A rows, order, v : Repository!ClaimNext(rows, order, v) = ClaimNext(rows, order, v)
  BY <1>2 DEF Repository!ClaimNext, ClaimNext
<1> QED
  BY <1>1, <1>2, <1>3, <1>4, <1>5, <1>6, <1>7

\* An ingestion replaces the jobs of the old chunks, creates those of a document's
\* first version, or does neither.
LEMMA IngestCallsRepository ==
  ASSUME Inv, NEW old \in SUBSET live, NEW new \in SUBSET Chunks, NEW active \in SUBSET Profiles,
         Ingest(old, new, active)
  PROVE  [Repository!Next]_(Repository!vars)
<1> DEFINE gone == old \X Profiles
           added == new \X active
<1>0. /\ jobs \in [Jobs -> Row] /\ live \subseteq Chunks
      /\ before \subseteq Jobs \X Jobs
      /\ jobs' = [j \in Jobs |-> CASE j \in added -> CreatedRow
                                  [] j \in gone -> DeletedRow
                                  [] OTHER -> jobs[j]]
      /\ before' = Created(jobs, before, added)
  BY DEF Inv, Rows, ChunksGo, Ingest
<1>1. gone \subseteq Jobs /\ added \subseteq Jobs
  BY <1>0 DEF Jobs
<1>2. ASSUME NEW j \in added PROVE jobs[j].status = "absent" /\ j \notin gone
  <2>1. j[1] \in new /\ j[2] \in Profiles /\ j = <<j[1], j[2]>>
    BY <1>2
  <2>2. j[1] \notin live /\ jobs[<<j[1], j[2]>>] = NoRow
    BY <2>1 DEF Ingest
  <2> QED
    BY <2>1, <2>2 DEF NoRow
<1> HIDE DEF gone, added
<1>3. CASE gone # {}
  <2>1. jobs' = [j \in Jobs |-> CASE j \in gone -> DeletedRow
                                 [] j \in added -> CreatedRow
                                 [] OTHER -> jobs[j]]
    BY <1>0, <1>2
  <2>2. Repository!Replace(gone, added)
    BY <1>0, <1>1, <1>2, <1>3, <2>1, SameRows DEF Repository!Replace
  <2> QED
    BY <1>1, <2>2, SameRows DEF Repository!Next
<1>4. CASE gone = {} /\ added # {}
  <2>1. jobs' = [j \in Jobs |-> IF j \in added THEN CreatedRow ELSE jobs[j]]
    BY <1>0, <1>4
  <2>2. Repository!Create(added)
    BY <1>0, <1>1, <1>2, <1>4, <2>1, SameRows DEF Repository!Create
  <2> QED
    BY <1>1, <2>2, SameRows DEF Repository!Next
<1>5. CASE gone = {} /\ added = {}
  <2>1. jobs' = jobs
    BY <1>0, <1>5
  <2>2. before' = before
    BY <1>0, <1>5 DEF Created
  <2> QED
    BY <2>1, <2>2 DEF Repository!vars
<1> QED
  BY <1>3, <1>4, <1>5

\* Every transaction of the program is one call of the repository or leaves its
\* table alone.
LEMMA NextCallsRepository ==
  ASSUME Inv, [Next]_vars
  PROVE  [Repository!Next]_(Repository!vars)
<1>0. /\ jobs \in [Jobs -> Row] /\ Rows
      /\ \A w \in Workers : pc[w] # "idle" => held[w] \in Jobs
  BY HoldsJob DEF Inv, Rows
<1>1. ASSUME NEW old \in SUBSET live, NEW new \in SUBSET Chunks,
             NEW active \in SUBSET Profiles, Ingest(old, new, active)
      PROVE  [Repository!Next]_(Repository!vars)
  BY <1>1, IngestCallsRepository
<1>2. ASSUME NEW active \in SUBSET Profiles, Reconcile(active) PROVE Repository!Next
  <2> DEFINE new == {j \in live \X active : jobs[j].status = "absent"}
  <2>1. new \in SUBSET Jobs
    BY DEF Inv, ChunksGo, Jobs
  <2>2. Repository!Create(new)
    BY <1>2, SameRows DEF Reconcile, Repository!Create
  <2> QED
    BY <2>1, <2>2, SameRows DEF Repository!Next
<1>3. ASSUME NEW k \in Jobs, RetryApi(k) \/ ReleaseApi(k) \/ LeaseExpires(k)
      PROVE  Repository!Next
  <2>1. Repository!Retry(k) \/ Repository!ReleaseStale(k) \/ Repository!LeaseExpires(k)
    BY <1>3, SameRows DEF RetryApi, ReleaseApi, LeaseExpires, Repository!Retry,
                          Repository!ReleaseStale, Repository!LeaseExpires
  <2> QED
    BY <2>1, SameRows DEF Repository!Next
<1>4. ASSUME NEW w \in Workers, ClaimNextJob(w) PROVE Repository!Next
  <2>1. PICK profiles \in {Profiles} \union {{p} : p \in Profiles} :
          \E k \in ClaimNext(jobs, before, Chunks \X profiles) :
            jobs' = [jobs EXCEPT ![k] = ClaimedRow(jobs[k], w)]
    BY <1>4 DEF ClaimNextJob
  <2>2. Chunks \X profiles \in SUBSET Jobs /\ UNCHANGED before
    BY <1>4 DEF Jobs, ClaimNextJob
  <2>3. Repository!Claim(w)
    BY <2>1, <2>2, SameRows DEF Repository!Claim
  <2> QED
    BY <2>3 DEF Repository!Next
<1>5. ASSUME NEW w \in Workers, Store(w) PROVE Repository!Next
  <2>1. held[w] \in Jobs
    BY <1>0, <1>5 DEF Store
  <2>2. Exists(jobs[held[w]])
    <3>1. /\ jobs[held[w]].status # "absent" /\ jobs[held[w]].status # "deleted"
          /\ jobs[held[w]].status \in Status \union {"absent", "deleted"}
      BY <1>0, <1>5, <2>1 DEF Store, Inv, Working, ChunksGo, Row
    <3> QED
      BY <3>1 DEF Exists
  <2>3. Repository!MarkSucceeded(held[w])
    BY <1>5, <2>2, SameRows DEF Store, Repository!MarkSucceeded
  <2> QED
    BY <2>1, <2>3, SameRows DEF Repository!Next
<1>6. ASSUME NEW w \in Workers, FailJob(w) \/ DeferJob(w)
      PROVE  [Repository!Next]_(Repository!vars)
  <2>1. held[w] \in Jobs /\ UNCHANGED before
    BY <1>0, <1>6 DEF FailJob, DeferJob
  <2>2. CASE Exists(jobs[held[w]])
    <3>1. Repository!MarkFailed(held[w]) \/ Repository!Defer(held[w])
      BY <1>6, <2>1, <2>2, SameRows
         DEF FailJob, DeferJob, Repository!MarkFailed, Repository!Defer
    <3> QED
      BY <2>1, <3>1, SameRows DEF Repository!Next
  <2>3. CASE ~Exists(jobs[held[w]])
    <3>1. jobs' = jobs
      BY <1>0, <1>6, <2>1, <2>3 DEF FailJob, DeferJob
    <3> QED
      BY <2>1, <3>1 DEF Repository!vars
  <2> QED
    BY <2>2, <2>3
<1>7. ASSUME NEW w \in Workers, SelectRoutes(w) \/ RouteFails(w) \/ Raise(w) \/ Crash(w)
      PROVE  UNCHANGED Repository!vars
  BY <1>7 DEF SelectRoutes, RouteFails, Raise, Crash, Repository!vars
<1>8. CASE UNCHANGED vars
  BY <1>8 DEF vars, Repository!vars
<1> QED
  BY <1>1, <1>2, <1>3, <1>4, <1>5, <1>6, <1>7, <1>8 DEF Next, WorkerStep

\* EmbeddingWorker implements EmbeddingJobs: the budget and the lease columns, proved of
\* any caller of the repository, hold for the embedding program at any timing.
THEOREM RepositoryImplemented == Spec => ImplementsRepository
<1>1. Init => Repository!Init
  BY SameRows DEF Init, Repository!Init
<1>2. Inv /\ [Next]_vars => [Repository!Next]_(Repository!vars)
  BY NextCallsRepository
<1> QED
  BY <1>1, <1>2, InvHolds, PTL DEF Spec, ImplementsRepository, Repository!Spec

-------------------------------------------------------------------------------
(* Jobs whose lease outlasts the work on them *)

\* The holder of a job that was not deleted is the owner of its lease.
Owned ==
  \A w \in Workers :
    held[w] \in Jobs \ overrun /\ Exists(jobs[held[w]]) =>
      /\ jobs[held[w]].status = "running"
      /\ jobs[held[w]].owner = w
      /\ jobs[held[w]].lease = "live"

TimelyInv == Inv /\ Owned

\* The history variable only grows.
LEMMA OverrunGrows == [Next]_vars => overrun \subseteq overrun'
  BY DEF Next, vars, Ingest, Reconcile, RetryApi, ReleaseApi, LeaseExpires, WorkerStep,
         ClaimNextJob, SelectRoutes, Store, RouteFails, Raise, FailJob, DeferJob, Crash, Leave

\* Two holders of one job would both be its owner.
LEMMA HoldersDiffer ==
  ASSUME Owned, NEW u \in Workers, NEW w \in Workers, u # w, held[u] \in Jobs \ overrun,
         Exists(jobs[held[u]])
  PROVE  held[u] # held[w]
  BY DEF Owned

\* No step of anybody else changes the job of a worker that holds it in time, but for
\* deleting it with its chunk.
LEMMA OthersStep ==
  ASSUME Inv, Owned, [Next]_vars, NEW u \in Workers,
         held'[u] = held[u], held[u] \in Jobs \ overrun', Exists(jobs'[held[u]])
  PROVE  jobs'[held[u]] = jobs[held[u]]
<1> DEFINE j == held[u]
<1> DEFINE Goal == jobs'[j] = jobs[j]
<1>0. /\ jobs \in [Jobs -> Row] /\ Rows
      /\ held \in [Workers -> Jobs \union {NoJob}] /\ NoJob \notin Jobs
      /\ j \in Jobs \ overrun /\ j \notin overrun'
      /\ Exists(jobs'[j]) /\ jobs[j].status # "absent"
  BY OverrunGrows, NoJobAssumption DEF Inv, Places, Rows, Working
<1>1. Exists(jobs[j])
  BY <1>0, AttemptsGrow
<1>2. jobs[j].status = "running" /\ jobs[j].owner = u /\ jobs[j].lease = "live"
  BY <1>0, <1>1 DEF Owned
<1>3. ASSUME NEW old \in SUBSET live, NEW new \in SUBSET Chunks,
             NEW active \in SUBSET Profiles, Ingest(old, new, active)
      PROVE  Goal
  <2>1. \/ jobs'[j] = jobs[j]
        \/ jobs'[j] = DeletedRow
        \/ j \in new \X active
    BY <1>0, <1>3 DEF Ingest
  <2>2. j \notin new \X active
    <3>1. ASSUME j \in new \X active PROVE jobs[j] = NoRow
      BY <1>0, <1>3, <3>1, JobType DEF Ingest
    <3> QED
      BY <1>0, <3>1 DEF NoRow
  <2>3. jobs'[j] # DeletedRow
    BY <1>0 DEF DeletedRow, NoRow, Exists, Status
  <2> QED
    BY <2>1, <2>2, <2>3
<1>4. ASSUME NEW active \in SUBSET Profiles, Reconcile(active) PROVE Goal
  BY <1>0, <1>4 DEF Reconcile
<1>5. ASSUME NEW k \in Jobs, RetryApi(k) \/ ReleaseApi(k) \/ LeaseExpires(k) PROVE Goal
  <2>1. k # j
    BY <1>0, <1>2, <1>5 DEF RetryApi, ReleaseApi, LeaseExpires, Retryable, Reclaimable, Expired
  <2> QED
    BY <1>0, <1>5, <2>1 DEF RetryApi, ReleaseApi, LeaseExpires
<1>6. ASSUME NEW w \in Workers, ClaimNextJob(w) PROVE Goal
  <2>1. PICK k \in Jobs : /\ jobs[k].status = "pending" \/ Expired(jobs[k])
                          /\ jobs' = [jobs EXCEPT ![k] = ClaimedRow(jobs[k], w)]
    BY <1>0, <1>6, ClaimStep
  <2>2. k # j
    BY <1>2, <2>1 DEF Expired
  <2> QED
    BY <1>0, <2>1, <2>2
<1>7. ASSUME NEW w \in Workers, Store(w) \/ FailJob(w) \/ DeferJob(w) PROVE Goal
  <2>1. u # w
    BY <1>0, <1>7 DEF Store, FailJob, DeferJob, Leave
  <2>2. j # held[w]
    BY <1>0, <1>1, <2>1, HoldersDiffer
  <2> QED
    BY <1>0, <1>7, <2>2 DEF Store, FailJob, DeferJob
<1>8. ASSUME NEW w \in Workers, SelectRoutes(w) \/ RouteFails(w) \/ Raise(w) \/ Crash(w)
      PROVE  Goal
  BY <1>8 DEF SelectRoutes, RouteFails, Raise, Crash
<1>9. CASE UNCHANGED vars
  BY <1>9 DEF vars
<1> QED
  BY <1>3, <1>4, <1>5, <1>6, <1>7, <1>8, <1>9 DEF Next, WorkerStep

LEMMA NextOwned ==
  ASSUME Inv, Owned, [Next]_vars
  PROVE  Owned'
<1> SUFFICES ASSUME NEW u \in Workers, held'[u] \in Jobs \ overrun', Exists(jobs'[held'[u]])
             PROVE  /\ jobs'[held'[u]].status = "running"
                    /\ jobs'[held'[u]].owner = u
                    /\ jobs'[held'[u]].lease = "live"
  BY DEF Owned, Exists
<1>1. CASE held'[u] = held[u]
  <2>1. jobs'[held[u]] = jobs[held[u]]
    BY <1>1, OthersStep
  <2> QED
    BY <1>1, <2>1, OverrunGrows DEF Owned
<1>2. CASE held'[u] # held[u]
  <2>1. /\ jobs' = [jobs EXCEPT ![held'[u]] = ClaimedRow(jobs[held'[u]], u)]
        /\ jobs[held'[u]].attempts < MaxAttempts
    BY <1>2, HeldStep
  <2>2. jobs'[held'[u]] = ClaimedRow(jobs[held'[u]], u) /\ Sound(jobs[held'[u]])
    BY <2>1 DEF Inv, Rows
  <2> QED
    BY <2>1, <2>2, ClaimedRowSound
<1> QED
  BY <1>1, <1>2

LEMMA TimelyInvHolds == Spec => []TimelyInv
<1>1. Init => TimelyInv
  <2>1. Init => Owned
    BY NoJobAssumption DEF Init, Owned
  <2> QED
    BY <2>1, InitInv DEF TimelyInv
<1>2. TimelyInv /\ [Next]_vars => TimelyInv'
  BY NextInv, NextOwned DEF TimelyInv
<1> QED
  BY <1>1, <1>2, PTL DEF Spec

\* A worker whose lease lasts is the lease owner of its running job, or the job was
\* deleted with its chunk.
THEOREM HolderIsOwnerHolds == Spec => []HolderIsOwner
<1>1. TimelyInv => HolderIsOwner
  BY DEF TimelyInv, Owned, HolderIsOwner
<1> QED
  BY <1>1, TimelyInvHolds, PTL

\* A job that was claimed once has no worker any more when it has succeeded.
Quiet ==
  \A j \in Jobs :
    jobs[j].status = "succeeded" /\ jobs[j].attempts <= 1 => Holder(j) = {}

QuietInv == CountInv /\ Owned /\ Quiet

\* Only a worker that holds the job makes it succeed.
LEMMA SucceedsByStore ==
  ASSUME Inv, [Next]_vars, NEW j \in Jobs,
         jobs[j].status # "succeeded", jobs'[j].status = "succeeded"
  PROVE  \E w \in Workers : Store(w) /\ held[w] = j
<1> DEFINE Goal == \E w \in Workers : Store(w) /\ held[w] = j
<1>0. /\ jobs \in [Jobs -> Row] /\ Rows /\ jobs'[j] # jobs[j]
      /\ \A w \in Workers : pc[w] # "idle" => held[w] \in Jobs
      /\ \A k \in Jobs : Sound(jobs[k])
  BY HoldsJob DEF Inv, Rows
<1>1. ASSUME NEW old \in SUBSET live, NEW new \in SUBSET Chunks,
             NEW active \in SUBSET Profiles, Ingest(old, new, active) \/ Reconcile(active)
      PROVE  Goal
  <2>1. jobs'[j] \in {jobs[j], CreatedRow, DeletedRow}
    BY <1>1 DEF Ingest, Reconcile
  <2> QED
    BY <1>0, <2>1 DEF CreatedRow, DeletedRow, NoRow
<1>2. ASSUME NEW k \in Jobs, RetryApi(k) \/ ReleaseApi(k) PROVE Goal
  <2>1. /\ jobs' = [jobs EXCEPT ![k] = PendingRow(jobs[k])]
        /\ Exists(jobs[k]) /\ jobs[k].attempts < MaxAttempts
    BY <1>2 DEF RetryApi, ReleaseApi, Retryable, Reclaimable, Expired, Exists, Status
  <2>2. PendingRow(jobs[k]).status = "pending"
    BY <1>0, <2>1, PendingRowSound
  <2> QED
    BY <1>0, <2>1, <2>2
<1>3. ASSUME NEW k \in Jobs, LeaseExpires(k) PROVE Goal
  <2>1. [jobs[k] EXCEPT !.lease = "expired"].status = jobs[k].status
    BY <1>0, LeaseRowSound
  <2> QED
    BY <1>0, <1>3, <2>1 DEF LeaseExpires
<1>4. ASSUME NEW w \in Workers, ClaimNextJob(w) PROVE Goal
  <2>1. PICK k \in Jobs : /\ jobs[k].attempts < MaxAttempts
                          /\ jobs' = [jobs EXCEPT ![k] = ClaimedRow(jobs[k], w)]
    BY <1>0, <1>4, ClaimStep
  <2>2. ClaimedRow(jobs[k], w).status = "running"
    BY <1>0, <2>1, ClaimedRowSound
  <2> QED
    BY <1>0, <2>1, <2>2
<1>5. ASSUME NEW w \in Workers, Store(w) PROVE Goal
  BY <1>0, <1>5 DEF Store
<1>6. ASSUME NEW w \in Workers, FailJob(w) \/ DeferJob(w) PROVE Goal
  <2>1. held[w] \in Jobs
    BY <1>0, <1>6 DEF FailJob, DeferJob
  <2>2. PICK r \in {SettledRow(jobs[held[w]], "failed"), DeferredRow(jobs[held[w]]),
                    jobs[held[w]]} : jobs' = [jobs EXCEPT ![held[w]] = r]
    BY <1>6 DEF FailJob, DeferJob
  <2>3. r.status \in {"failed", "running"} \/ r = jobs[held[w]]
    BY <1>0, <2>1, SettledRowSound, DeferredRowSound
  <2> QED
    BY <1>0, <2>1, <2>2, <2>3
<1>7. ASSUME NEW w \in Workers, SelectRoutes(w) \/ RouteFails(w) \/ Raise(w) \/ Crash(w)
      PROVE  Goal
  BY <1>0, <1>7 DEF SelectRoutes, RouteFails, Raise, Crash
<1>8. CASE UNCHANGED vars
  BY <1>0, <1>8 DEF vars
<1> QED
  BY <1>1, <1>2, <1>3, <1>4, <1>5, <1>6, <1>7, <1>8 DEF Next, WorkerStep

LEMMA NextQuiet ==
  ASSUME QuietInv, [Next]_vars, NEW j \in Jobs,
         jobs'[j].status = "succeeded", jobs'[j].attempts <= 1
  PROVE  Holder(j)' = {}
<1>0. /\ Inv /\ Exists(jobs'[j])
      /\ jobs \in [Jobs -> Row] /\ jobs[j].attempts \in Nat /\ jobs'[j].attempts \in Nat
      /\ held \in [Workers -> Jobs \union {NoJob}]
  <2>1. Sound(jobs'[j])
    BY NextRowStep DEF QuietInv, CountInv, RowStep
  <2> QED
    BY <2>1, MaxAttemptsAssumption
       DEF QuietInv, CountInv, Inv, Rows, Places, Row, Sound, Exists, Status
<1>1. CASE jobs[j].status = "succeeded"
  <2>1. jobs[j].attempts <= 1
    BY <1>0, <1>1, AttemptsGrow
  <2>2. Holder(j) = {}
    BY <1>1, <2>1 DEF QuietInv, Quiet
  <2>3. \A u \in Workers : held'[u] = j => held[u] = j
    BY <1>0, <1>1, HeldStep DEF Expired
  <2> QED
    BY <2>2, <2>3 DEF Holder
<1>2. CASE jobs[j].status # "succeeded"
  <2>1. PICK w \in Workers : Store(w) /\ held[w] = j
    BY <1>0, <1>2, SucceedsByStore
  <2>2. held' = [held EXCEPT ![w] = NoJob] /\ w \in Holder(j)
    BY <2>1 DEF Store, Leave, Holder
  <2>3. /\ Exists(jobs[j]) /\ jobs[j].attempts <= 1
    <3>1. jobs[j].status # "absent"
      BY <1>0, <2>1 DEF Store, Inv, Working
    <3> QED
      BY <1>0, <3>1, AttemptsGrow
  <2>4. IsFiniteSet(Holder(j)) /\ {w} \subseteq Holder(j) /\ Cardinality(Holder(j)) <= 1
        /\ Cardinality(Holder(j)) \in Nat
    <3>1. IsFiniteSet(Holder(j)) /\ Cardinality(Holder(j)) <= jobs[j].attempts
      BY <2>3 DEF QuietInv, CountInv, Counted
    <3>2. Cardinality(Holder(j)) \in Nat
      BY <3>1, FS_CardinalityType
    <3> QED
      BY <1>0, <2>2, <2>3, <3>1, <3>2
  <2>5. /\ Cardinality({w}) = 1 /\ Cardinality({w}) <= Cardinality(Holder(j))
        /\ Cardinality({w}) = Cardinality(Holder(j)) => {w} = Holder(j)
    BY <2>4, FS_Singleton, FS_Subset
  <2>6. Holder(j) = {w}
    BY <2>4, <2>5
  <2> QED
    BY <1>0, <2>2, <2>6, NoJobAssumption DEF Holder
<1> QED
  BY <1>1, <1>2

LEMMA QuietInvHolds == Spec => []QuietInv
<1>1. Init => QuietInv
  <2> SUFFICES ASSUME Init PROVE QuietInv
    OBVIOUS
  <2>1. Owned /\ Quiet
    BY NoJobAssumption DEF Init, Owned, Quiet, NoRow
  <2> QED
    BY <2>1, InitCounted DEF QuietInv
<1>2. QuietInv /\ [Next]_vars => QuietInv'
  <2> SUFFICES ASSUME QuietInv, [Next]_vars PROVE QuietInv'
    OBVIOUS
  <2>1. CountInv' /\ Owned'
    BY NextInv, NextCounted, NextOwned DEF QuietInv, CountInv
  <2>2. Quiet'
    BY NextQuiet DEF Quiet
  <2> QED
    BY <2>1, <2>2 DEF QuietInv
<1> QED
  BY <1>1, <1>2, PTL DEF Spec

\* A success is taken back by nobody but a worker that still holds the job, and then
\* the job was claimed again after its lease ran out under a worker.
THEOREM SucceededStaysSo == Spec => SucceededIsFinal
<1> DEFINE TakenBack(j) ==
             /\ j \in overrun
             /\ jobs[j].attempts > 1
             /\ \E w \in Workers :
                  held[w] = j /\ pc[w] \in {"failing", "deferring"} /\ held'[w] = NoJob
           Final == \A j \in Jobs :
             jobs[j].status = "succeeded" /\ jobs'[j].status \notin {"succeeded", "deleted"} =>
               TakenBack(j)
<1>1. QuietInv /\ [Next]_vars => [Final]_vars
  <2> SUFFICES ASSUME QuietInv, [Next]_vars, NEW j \in Jobs,
                      jobs[j].status = "succeeded"
               PROVE  jobs'[j].status \in {"succeeded", "deleted"} \/ TakenBack(j)
    OBVIOUS
  <2> DEFINE Goal == jobs'[j].status \in {"succeeded", "deleted"} \/ TakenBack(j)
  <2>0. /\ jobs \in [Jobs -> Row] /\ Rows /\ Inv /\ Owned
        /\ held \in [Workers -> Jobs \union {NoJob}]
        /\ \A w \in Workers : pc[w] # "idle" => held[w] \in Jobs
        /\ \A k \in Jobs : Sound(jobs[k])
        /\ Exists(jobs[j])
        /\ jobs[j].attempts \in Nat
    BY HoldsJob, MaxAttemptsAssumption
       DEF QuietInv, CountInv, Inv, Places, Rows, Row, Exists, Status
  <2>1. ASSUME NEW w \in Workers, held[w] = j PROVE j \in overrun /\ jobs[j].attempts > 1
    <3>1. j \in overrun
      BY <2>0, <2>1 DEF Owned
    <3>2. Holder(j) # {}
      BY <2>1 DEF Holder
    <3> QED
      BY <2>0, <3>1, <3>2 DEF QuietInv, Quiet
  <2>2. ASSUME jobs'[j] = jobs[j] PROVE Goal
    BY <2>2
  <2>3. ASSUME NEW old \in SUBSET live, NEW new \in SUBSET Chunks,
               NEW active \in SUBSET Profiles, Ingest(old, new, active)
        PROVE  Goal
    <3>1. \/ jobs'[j] = jobs[j]
          \/ jobs'[j] = DeletedRow
          \/ j \in new \X active
      BY <2>3 DEF Ingest
    <3>2. j \notin new \X active
      <4>1. ASSUME j \in new \X active PROVE jobs[j] = NoRow
        BY <2>3, <4>1, JobType DEF Ingest
      <4> QED
        BY <4>1 DEF NoRow
    <3> QED
      BY <2>2, <3>1, <3>2 DEF DeletedRow, NoRow
  <2>4. ASSUME NEW active \in SUBSET Profiles, Reconcile(active) PROVE Goal
    BY <2>2, <2>4 DEF Reconcile
  <2>5. ASSUME NEW k \in Jobs, RetryApi(k) \/ ReleaseApi(k) PROVE Goal
    <3>1. k # j
      BY <2>5 DEF RetryApi, ReleaseApi, Retryable, Reclaimable, Expired
    <3> QED
      BY <2>0, <2>2, <2>5, <3>1 DEF RetryApi, ReleaseApi
  <2>6. ASSUME NEW k \in Jobs, LeaseExpires(k) PROVE Goal
    <3>1. [jobs[k] EXCEPT !.lease = "expired"].status = jobs[k].status
      BY <2>0, LeaseRowSound
    <3> QED
      BY <2>0, <2>2, <2>6, <3>1 DEF LeaseExpires
  <2>7. ASSUME NEW w \in Workers, ClaimNextJob(w) PROVE Goal
    <3>1. PICK k \in Jobs : /\ jobs[k].status = "pending" \/ Expired(jobs[k])
                            /\ jobs' = [jobs EXCEPT ![k] = ClaimedRow(jobs[k], w)]
      BY <2>0, <2>7, ClaimStep
    <3>2. k # j
      BY <3>1 DEF Expired
    <3> QED
      BY <2>0, <2>2, <3>1, <3>2
  <2>8. ASSUME NEW w \in Workers, Store(w) PROVE Goal
    <3>1. SettledRow(jobs[held[w]], "succeeded").status = "succeeded" /\ held[w] \in Jobs
      BY <2>0, <2>8, SettledRowSound DEF Store
    <3> QED
      BY <2>0, <2>8, <3>1 DEF Store
  <2>9. ASSUME NEW w \in Workers, FailJob(w) \/ DeferJob(w) PROVE Goal
    <3>1. CASE held[w] = j
      <4>1. pc[w] \in {"failing", "deferring"} /\ held'[w] = NoJob
        BY <2>0, <2>9 DEF FailJob, DeferJob, Leave
      <4>2. TakenBack(j)
        BY <2>1, <3>1, <4>1
      <4> QED
        BY <4>2
    <3>2. CASE held[w] # j
      BY <2>0, <2>2, <2>9, <3>2 DEF FailJob, DeferJob
    <3> QED
      BY <3>1, <3>2
  <2>10. ASSUME NEW w \in Workers, SelectRoutes(w) \/ RouteFails(w) \/ Raise(w) \/ Crash(w)
         PROVE  Goal
    BY <2>2, <2>10 DEF SelectRoutes, RouteFails, Raise, Crash
  <2>11. CASE UNCHANGED vars
    BY <2>2, <2>11 DEF vars
  <2> QED
    BY <2>3, <2>4, <2>5, <2>6, <2>7, <2>8, <2>9, <2>10, <2>11 DEF Next, WorkerStep
<1> QED
  BY <1>1, QuietInvHolds, PTL DEF Spec, SucceededIsFinal

-------------------------------------------------------------------------------
(* The queue *)

\* A job without a row: nothing is counted for it.
Fresh == \A j \in Jobs : jobs[j].status = "absent" => jobs[j].attempts = 0

QueueInv == TimelyInv /\ Fresh

\* In time, a job that was not deleted has at most one holder.
LEMMA OnlyHolder ==
  ASSUME TimelyInv, overrun = {}, NEW w \in Workers, held[w] \in Jobs,
         Exists(jobs[held[w]])
  PROVE  /\ Holder(held[w]) = {w}
         /\ jobs[held[w]].status = "running" /\ jobs[held[w]].lease = "live"
         /\ QueuePlace[held[w]] = "working" /\ QueueWorker[held[w]] = w
<1>1. /\ Owned /\ held[w] \in Jobs \ overrun
  BY DEF TimelyInv
<1>2. jobs[held[w]].status = "running" /\ jobs[held[w]].lease = "live"
  BY <1>1 DEF Owned
<1>3. \A u \in Workers : held[u] = held[w] => u = w
  BY <1>1 DEF Owned
<1>4. Holder(held[w]) = {w}
  BY <1>3 DEF Holder
<1>5. AnyOf({w}) = w
  BY DEF AnyOf
<1> QED
  BY <1>2, <1>4, <1>5 DEF QueuePlace, QueueWorker

\* An item nobody works on.
LEMMA NoHolder ==
  ASSUME NEW j \in Jobs, Exists(jobs[j]) => \A w \in Workers : held[w] # j
  PROVE  /\ QueueWorker[j] = NoOne
         /\ QueuePlace[j] = CASE jobs[j].status = "absent" -> "absent"
                              [] jobs[j].status = "pending" -> "waiting"
                              [] jobs[j].status = "running" -> "lost"
                              [] jobs[j].status = "succeeded" -> "done"
                              [] jobs[j].status = "deleted" -> "dropped"
                              [] OTHER -> "failed"
<1>1. CASE Holder(j) = {}
  BY <1>1 DEF QueuePlace, QueueWorker
<1>2. CASE ~Exists(jobs[j])
  <2>1. jobs[j].status # "running"
    BY <1>2 DEF Exists, Status
  <2> QED
    BY <1>2, <2>1 DEF QueuePlace, QueueWorker
<1> QED
  BY <1>1, <1>2 DEF Holder

\* An item whose job is the same to the queue.
LEMMA SameItem ==
  ASSUME NEW j \in Jobs,
         jobs'[j].status = jobs[j].status, jobs'[j].attempts = jobs[j].attempts,
         Exists(jobs[j]) => \A w \in Workers : held'[w] = j <=> held[w] = j
  PROVE  /\ QueuePlace'[j] = QueuePlace[j]
         /\ QueueWorker'[j] = QueueWorker[j]
         /\ QueueTries'[j] = QueueTries[j]
<1>1. QueueTries'[j] = QueueTries[j]
  BY DEF QueueTries
<1>2. Exists(jobs'[j]) <=> Exists(jobs[j])
  BY DEF Exists
<1>3. CASE Exists(jobs[j])
  <2>1. Holder(j)' = Holder(j)
    BY <1>3 DEF Holder
  <2>2. QueuePlace'[j] = QueuePlace[j]
    BY <2>1 DEF QueuePlace
  <2>3. QueueWorker'[j] = QueueWorker[j]
    BY <1>2, <2>1 DEF QueueWorker
  <2> QED
    BY <1>1, <2>2, <2>3
<1>4. CASE ~Exists(jobs[j])
  <2>1. jobs[j].status # "running"
    BY <1>4 DEF Exists, Status
  <2>2. QueuePlace'[j] = QueuePlace[j]
    BY <2>1 DEF QueuePlace
  <2>3. QueueWorker'[j] = QueueWorker[j]
    BY <1>2, <1>4 DEF QueueWorker
  <2> QED
    BY <1>1, <2>2, <2>3
<1> QED
  BY <1>3, <1>4

\* The queue is three functions.
LEMMA Functions3 ==
  /\ QueuePlace = [k \in Jobs |-> QueuePlace[k]]
  /\ QueueWorker = [k \in Jobs |-> QueueWorker[k]]
  /\ QueueTries = [k \in Jobs |-> QueueTries[k]]
  /\ QueuePlace' = [k \in Jobs |-> QueuePlace'[k]]
  /\ QueueWorker' = [k \in Jobs |-> QueueWorker'[k]]
  /\ QueueTries' = [k \in Jobs |-> QueueTries'[k]]
  BY DEF QueuePlace, QueueWorker, QueueTries

\* Steps the queue does not see.
LEMMA Unseen ==
  ASSUME \A j \in Jobs :
           /\ jobs'[j].status = jobs[j].status /\ jobs'[j].attempts = jobs[j].attempts
           /\ Exists(jobs[j]) => \A w \in Workers : held'[w] = j <=> held[w] = j
  PROVE  UNCHANGED Queue!vars
<1>1. \A j \in Jobs : /\ QueuePlace'[j] = QueuePlace[j]
                      /\ QueueWorker'[j] = QueueWorker[j]
                      /\ QueueTries'[j] = QueueTries[j]
  BY SameItem
<1>2. QueuePlace' = QueuePlace /\ QueueWorker' = QueueWorker /\ QueueTries' = QueueTries
  BY <1>1, Functions3
<1> QED
  BY <1>2 DEF Queue!vars

\* A step that writes one row and leaves the holders of the other jobs alone.
LEMMA OneRow ==
  ASSUME NEW j \in Jobs, NEW r, jobs \in [Jobs -> Row], jobs' = [jobs EXCEPT ![j] = r],
         \A k \in Jobs \ {j} : \A w \in Workers : held'[w] = k <=> held[w] = k
  PROVE  /\ jobs'[j] = r
         /\ QueuePlace' = [QueuePlace EXCEPT ![j] = QueuePlace'[j]]
         /\ QueueWorker' = [QueueWorker EXCEPT ![j] = QueueWorker'[j]]
         /\ QueueTries' = [QueueTries EXCEPT ![j] = r.attempts]
         /\ QueueTries[j] = jobs[j].attempts
         /\ r.attempts = jobs[j].attempts => QueueTries' = QueueTries
         /\ QueueWorker'[j] = QueueWorker[j] => QueueWorker' = QueueWorker
<1>1. jobs'[j] = r /\ \A k \in Jobs \ {j} : jobs'[k] = jobs[k]
  OBVIOUS
<1>2. \A k \in Jobs \ {j} : /\ QueuePlace'[k] = QueuePlace[k]
                            /\ QueueWorker'[k] = QueueWorker[k]
                            /\ QueueTries'[k] = QueueTries[k]
  BY <1>1, SameItem
<1>3. QueueTries'[j] = r.attempts /\ QueueTries[j] = jobs[j].attempts
  BY <1>1 DEF QueueTries
<1>4. QueuePlace' = [QueuePlace EXCEPT ![j] = QueuePlace'[j]]
  BY <1>2, Functions3
<1>5. QueueWorker' = [QueueWorker EXCEPT ![j] = QueueWorker'[j]]
  BY <1>2, Functions3
<1>6. QueueTries' = [QueueTries EXCEPT ![j] = QueueTries'[j]]
  BY <1>2, Functions3
<1>7. QueueTries'[j] = QueueTries[j] => QueueTries' = QueueTries
  BY <1>6, Functions3
<1>8. QueueWorker'[j] = QueueWorker[j] => QueueWorker' = QueueWorker
  BY <1>5, Functions3
<1> QED
  BY <1>1, <1>3, <1>4, <1>5, <1>6, <1>7, <1>8

\* A worker that settles, defers or abandons its job finishes the item.
LEMMA Finished ==
  ASSUME QueueInv, overrun = {}, NEW w \in Workers, pc[w] # "idle", Leave(w),
         Exists(jobs[held[w]]),
         NEW r, jobs' = [jobs EXCEPT ![held[w]] = r], r.attempts = jobs[held[w]].attempts,
         r.status \in {"succeeded", "failed", "running"}
  PROVE  Queue!Next
<1>1. /\ held[w] \in Jobs /\ TimelyInv /\ jobs \in [Jobs -> Row]
      /\ held \in [Workers -> Jobs \union {NoJob}]
  BY HoldsJob DEF QueueInv, TimelyInv, Inv, Places, Rows
<1>2. /\ Holder(held[w]) = {w} /\ QueuePlace[held[w]] = "working" /\ QueueWorker[held[w]] = w
  BY <1>1, OnlyHolder
<1>3. held' = [held EXCEPT ![w] = NoJob]
  BY DEF Leave
<1> DEFINE j == held[w]
<1>4. \A u \in Workers : held'[u] # j
  BY <1>1, <1>2, <1>3, NoJobAssumption DEF Holder
<1>5. \A k \in Jobs \ {j} : \A u \in Workers : held'[u] = k <=> held[u] = k
  BY <1>1, <1>3, NoJobAssumption
<1>6. PICK k : k = j
  OBVIOUS
<1>7. /\ k \in Jobs /\ jobs'[k] = r
      /\ QueuePlace' = [QueuePlace EXCEPT ![k] = QueuePlace'[k]]
      /\ QueueWorker' = [QueueWorker EXCEPT ![k] = QueueWorker'[k]]
      /\ QueueTries' = QueueTries
  BY <1>1, <1>5, <1>6, OneRow
<1>8. Holder(k)' = {}
  BY <1>4, <1>6 DEF Holder
<1>9. QueueWorker'[k] = NoOne /\ QueuePlace'[k] \in {"done", "failed", "lost"}
  BY <1>7, <1>8 DEF QueueWorker, QueuePlace
<1>10. Queue!Finish(k)
  BY <1>2, <1>6, <1>7, <1>9 DEF Queue!Finish, Queue!Moved
<1> QED
  BY <1>7, <1>10 DEF Queue!Next

\* A worker that leaves a deleted job leaves nothing.
LEMMA LeavesDeleted ==
  ASSUME Inv, NEW w \in Workers, pc[w] # "idle", Leave(w), ~Exists(jobs[held[w]]),
         jobs' = jobs
  PROVE  UNCHANGED Queue!vars
<1>1. /\ held[w] \in Jobs /\ held \in [Workers -> Jobs \union {NoJob}]
      /\ held' = [held EXCEPT ![w] = NoJob]
  BY HoldsJob DEF Inv, Places, Leave
<1>2. \A j \in Jobs : Exists(jobs[j]) => \A u \in Workers : held'[u] = j <=> held[u] = j
  BY <1>1, NoJobAssumption
<1> QED
  BY <1>2, Unseen

\* New jobs, and jobs whose chunk goes.
LEMMA Submitted ==
  ASSUME QueueInv, overrun = {}, held' = held, NEW added \in SUBSET Jobs, NEW gone \in SUBSET Jobs,
         added \cap gone = {}, \A j \in added : jobs[j].status = "absent",
         \A j \in added : jobs'[j] = CreatedRow,
         \A j \in gone : jobs'[j] = DeletedRow,
         \A j \in Jobs \ (added \union gone) : jobs'[j] = jobs[j]
  PROVE  Queue!Next
<1>0. Inv
  BY DEF QueueInv, TimelyInv
<1>1. ASSUME NEW j \in added
      PROVE  /\ QueuePlace[j] = "absent" /\ QueuePlace'[j] = "waiting"
             /\ QueueWorker'[j] = QueueWorker[j] /\ QueueTries'[j] = QueueTries[j]
  <2>1. Holder(j) = {} /\ Holder(j)' = {}
    BY <1>0, <1>1, NoJobAssumption DEF Holder, Inv, Working
  <2>2. /\ jobs'[j].status = "pending" /\ jobs'[j].attempts = 0
        /\ jobs[j].attempts = 0
    BY <1>1 DEF CreatedRow, NoRow, QueueInv, Fresh
  <2> QED
    BY <1>1, <2>1, <2>2 DEF QueuePlace, QueueWorker, QueueTries
<1>2. ASSUME NEW j \in gone
      PROVE  QueuePlace'[j] = "dropped" /\ QueueWorker'[j] = NoOne /\ QueueTries'[j] = 0
  <2>1. jobs'[j].status = "deleted" /\ jobs'[j].attempts = 0 /\ ~Exists(jobs'[j])
    BY <1>2 DEF DeletedRow, NoRow, Exists, Status
  <2> QED
    BY <1>2, <2>1 DEF QueuePlace, QueueWorker, QueueTries
<1>3. ASSUME NEW j \in Jobs \ (added \union gone)
      PROVE  /\ QueuePlace'[j] = QueuePlace[j] /\ QueueWorker'[j] = QueueWorker[j]
             /\ QueueTries'[j] = QueueTries[j]
  BY <1>3, SameItem
<1>4. QueuePlace' = [j \in Jobs |-> IF j \in added THEN "waiting"
                                    ELSE IF j \in gone THEN "dropped" ELSE QueuePlace[j]]
  BY <1>1, <1>2, <1>3, Functions3
<1>5. QueueWorker' = [j \in Jobs |-> IF j \in gone THEN NoOne ELSE QueueWorker[j]]
  BY <1>1, <1>2, <1>3, Functions3
<1>6. QueueTries' = [j \in Jobs |-> IF j \in gone THEN 0 ELSE QueueTries[j]]
  BY <1>1, <1>2, <1>3, Functions3
<1>7. Queue!Submit(added, gone)
  BY <1>1, <1>4, <1>5, <1>6 DEF Queue!Submit
<1> QED
  BY <1>7 DEF Queue!Next

LEMMA NextQueue ==
  ASSUME QueueInv, [Next]_vars, overrun' = {}
  PROVE  [Queue!Next]_(Queue!vars)
<1>0. /\ TimelyInv /\ Inv /\ Places /\ Rows /\ jobs \in [Jobs -> Row] /\ overrun = {}
      /\ held \in [Workers -> Jobs \union {NoJob}]
      /\ \A j \in Jobs : Sound(jobs[j])
  BY OverrunGrows DEF QueueInv, TimelyInv, Inv, Places, Rows
<1>1. ASSUME NEW old \in SUBSET live, NEW new \in SUBSET Chunks,
             NEW active \in SUBSET Profiles, Ingest(old, new, active)
      PROVE  Queue!Next
  <2> DEFINE added == new \X active
             gone == old \X Profiles
  <2>1. added \in SUBSET Jobs /\ gone \in SUBSET Jobs /\ held' = held
    BY <1>0, <1>1 DEF Ingest, Jobs, Inv, ChunksGo
  <2>2. \A c \in new : c \notin live /\ \A p \in Profiles : jobs[<<c, p>>] = NoRow
    BY <1>1 DEF Ingest
  <2>3. added \cap gone = {}
    BY <2>2
  <2>4. \A j \in added : jobs[j].status = "absent"
    BY <2>2 DEF NoRow
  <2>5. \A j \in Jobs : jobs'[j] = CASE j \in added -> CreatedRow
                                     [] j \in gone -> DeletedRow
                                     [] OTHER -> jobs[j]
    BY <1>1 DEF Ingest
  <2> HIDE DEF added, gone
  <2>6. /\ \A j \in added : jobs'[j] = CreatedRow
        /\ \A j \in gone : jobs'[j] = DeletedRow
        /\ \A j \in Jobs \ (added \union gone) : jobs'[j] = jobs[j]
    BY <2>1, <2>3, <2>5
  <2> QED
    BY <1>0, <2>1, <2>3, <2>4, <2>6, Submitted
<1>2. ASSUME NEW active \in SUBSET Profiles, Reconcile(active) PROVE Queue!Next
  <2> DEFINE new == {j \in live \X active : jobs[j].status = "absent"}
  <2>1. new \in SUBSET Jobs /\ held' = held
    BY <1>0, <1>2 DEF Reconcile, Jobs, Inv, ChunksGo
  <2>2. \A j \in new : jobs[j].status = "absent"
    OBVIOUS
  <2>3. \A j \in Jobs : jobs'[j] = IF j \in new THEN CreatedRow ELSE jobs[j]
    BY <1>2 DEF Reconcile
  <2> HIDE DEF new
  <2>4. /\ \A j \in new : jobs'[j] = CreatedRow
        /\ \A j \in {} : jobs'[j] = DeletedRow
        /\ \A j \in Jobs \ (new \union {}) : jobs'[j] = jobs[j]
        /\ {} \in SUBSET Jobs /\ new \cap {} = {}
    BY <2>1, <2>3
  <2> QED
    BY <1>0, <2>1, <2>2, <2>4, Submitted
<1>3. ASSUME NEW j \in Jobs, RetryApi(j) \/ ReleaseApi(j) PROVE Queue!Next
  <2>1. /\ jobs[j].status = "failed" \/ Expired(jobs[j])
        /\ jobs[j].attempts < MaxAttempts
        /\ jobs' = [jobs EXCEPT ![j] = PendingRow(jobs[j])] /\ held' = held
    BY <1>3 DEF RetryApi, ReleaseApi, Retryable, Reclaimable
  <2>2. /\ PendingRow(jobs[j]).attempts = jobs[j].attempts
        /\ PendingRow(jobs[j]).status = "pending"
    BY <1>0, <2>1, PendingRowSound
  <2>3. \A w \in Workers : held[w] # j
    <3>1. Exists(jobs[j]) /\ ~(jobs[j].status = "running" /\ jobs[j].lease = "live")
      BY <2>1 DEF Expired, Exists, Status
    <3> QED
      BY <1>0, <3>1, OnlyHolder
  <2>4. QueuePlace[j] \in {"failed", "lost"} /\ QueueWorker[j] = NoOne
    BY <2>1, <2>3, NoHolder DEF Expired
  <2>5. jobs'[j].status = "pending" /\ Holder(j)' = {}
    BY <1>0, <2>1, <2>2, <2>3 DEF Holder
  <2>6. QueuePlace'[j] = "waiting" /\ QueueWorker'[j] = NoOne
    BY <2>5 DEF QueuePlace, QueueWorker
  <2>7. /\ QueuePlace' = [QueuePlace EXCEPT ![j] = "waiting"]
        /\ QueueWorker' = QueueWorker /\ QueueTries' = QueueTries
        /\ QueueTries[j] = jobs[j].attempts
    BY <1>0, <2>1, <2>2, <2>4, <2>6, OneRow
  <2>8. Queue!Resubmit(j)
    BY <2>1, <2>4, <2>7 DEF Queue!Resubmit, Queue!Moved
  <2> QED
    BY <2>8 DEF Queue!Next
<1>4. ASSUME NEW j \in Jobs, LeaseExpires(j) PROVE UNCHANGED Queue!vars
  <2> DEFINE r == [jobs[j] EXCEPT !.lease = "expired"]
  <2>1. r.status = jobs[j].status /\ r.attempts = jobs[j].attempts
    BY <1>0, LeaseRowSound
  <2>2. jobs' = [jobs EXCEPT ![j] = r] /\ held' = held
    BY <1>4 DEF LeaseExpires
  <2> HIDE DEF r
  <2>3. \A k \in Jobs : /\ jobs'[k].status = jobs[k].status
                        /\ jobs'[k].attempts = jobs[k].attempts
    BY <1>0, <2>1, <2>2
  <2> QED
    BY <2>2, <2>3, Unseen
<1>5. ASSUME NEW w \in Workers, ClaimNextJob(w) PROVE Queue!Next
  <2>1. PICK j \in Jobs : /\ jobs[j].attempts < MaxAttempts
                          /\ jobs[j].status = "pending" \/ Expired(jobs[j])
                          /\ jobs' = [jobs EXCEPT ![j] = ClaimedRow(jobs[j], w)]
                          /\ held' = [held EXCEPT ![w] = j]
    BY <1>0, <1>5, ClaimStep
  <2>2. Exists(jobs[j]) /\ ~(jobs[j].status = "running" /\ jobs[j].lease = "live")
    BY <2>1 DEF Expired, Exists, Status
  <2>3. \A u \in Workers : held[u] # j
    BY <1>0, <2>2, OnlyHolder
  <2>4. QueuePlace[j] \in {"waiting", "lost"} /\ QueueTries[j] = jobs[j].attempts
    BY <2>1, <2>3, NoHolder DEF QueueTries, Expired
  <2>5. held[w] = NoJob
    BY <1>0, <1>5 DEF ClaimNextJob, Places
  <2>6. Queue!Idle(w)
    <3> SUFFICES ASSUME NEW i \in Jobs PROVE QueueWorker[i] # w
      BY DEF Queue!Idle
    <3>1. CASE Exists(jobs[i]) /\ \E u \in Workers : held[u] = i
      <4>1. PICK u \in Workers : held[u] = i
        BY <3>1
      <4>2. QueueWorker[i] = u
        BY <1>0, <3>1, <4>1, OnlyHolder
      <4> QED
        BY <2>5, <4>1, <4>2, NoJobAssumption
    <3>2. CASE Exists(jobs[i]) => \A u \in Workers : held[u] # i
      BY <3>2, NoHolder, OwnersAssumption
    <3> QED
      BY <3>1, <3>2
  <2> DEFINE r == ClaimedRow(jobs[j], w)
  <2>7. r.attempts = jobs[j].attempts + 1 /\ r.status = "running"
    BY <1>0, <2>1, ClaimedRowSound
  <2>8. \A k \in Jobs \ {j} : \A u \in Workers : held'[u] = k <=> held[u] = k
    BY <1>0, <2>1, <2>5, NoJobAssumption
  <2>9. jobs' = [jobs EXCEPT ![j] = r]
    BY <2>1
  <2> HIDE DEF r
  <2>10. /\ jobs'[j] = r
         /\ QueuePlace' = [QueuePlace EXCEPT ![j] = QueuePlace'[j]]
         /\ QueueWorker' = [QueueWorker EXCEPT ![j] = QueueWorker'[j]]
         /\ QueueTries' = [QueueTries EXCEPT ![j] = r.attempts]
    BY <1>0, <2>8, <2>9, OneRow
  <2>11. Holder(j)' = {w}
    BY <1>0, <2>1, <2>3 DEF Holder
  <2>12. AnyOf({w}) = w
    BY DEF AnyOf
  <2>13. Exists(jobs'[j])
    BY <2>7, <2>10 DEF Exists, Status
  <2>14. QueuePlace'[j] = "working" /\ QueueWorker'[j] = w
    BY <2>7, <2>10, <2>11, <2>12, <2>13 DEF QueuePlace, QueueWorker
  <2>15. QueueTries' = [QueueTries EXCEPT ![j] = QueueTries[j] + 1]
    BY <2>4, <2>7, <2>10
  <2>16. Queue!Assign(j, w)
    BY <2>1, <2>4, <2>6, <2>10, <2>14, <2>15 DEF Queue!Assign
  <2> QED
    BY <2>16 DEF Queue!Next
<1>6. ASSUME NEW w \in Workers, Store(w) PROVE Queue!Next
  <2>1. held[w] \in Jobs /\ pc[w] # "idle" /\ Leave(w)
    BY <1>0, <1>6, HoldsJob DEF Store
  <2>2. Exists(jobs[held[w]])
    <3>1. /\ jobs[held[w]].status # "absent" /\ jobs[held[w]].status # "deleted"
          /\ jobs[held[w]].status \in Status \union {"absent", "deleted"}
      BY <1>0, <1>6, <2>1 DEF Store, Inv, Working, ChunksGo, Row
    <3> QED
      BY <3>1 DEF Exists
  <2>3. jobs' = [jobs EXCEPT ![held[w]] = SettledRow(jobs[held[w]], "succeeded")]
    BY <1>6 DEF Store
  <2>4. /\ SettledRow(jobs[held[w]], "succeeded").attempts = jobs[held[w]].attempts
        /\ SettledRow(jobs[held[w]], "succeeded").status = "succeeded"
    BY <1>0, <2>1, SettledRowSound
  <2> QED
    BY <1>0, <2>1, <2>2, <2>3, <2>4, Finished
<1>7. ASSUME NEW w \in Workers, FailJob(w) \/ DeferJob(w) PROVE [Queue!Next]_(Queue!vars)
  <2>1. held[w] \in Jobs /\ pc[w] # "idle" /\ Leave(w)
    BY <1>0, <1>7, HoldsJob DEF FailJob, DeferJob
  <2>2. CASE Exists(jobs[held[w]])
    <3>1. PICK r \in {SettledRow(jobs[held[w]], "failed"), DeferredRow(jobs[held[w]])} :
            jobs' = [jobs EXCEPT ![held[w]] = r]
      BY <1>7, <2>2 DEF FailJob, DeferJob
    <3>2. r.attempts = jobs[held[w]].attempts /\ r.status \in {"failed", "running"}
      BY <1>0, <2>1, SettledRowSound, DeferredRowSound
    <3> QED
      BY <1>0, <2>1, <2>2, <3>1, <3>2, Finished
  <2>3. CASE ~Exists(jobs[held[w]])
    <3>1. jobs' = jobs
      BY <1>0, <1>7, <2>1, <2>3 DEF FailJob, DeferJob
    <3> QED
      BY <1>0, <2>1, <2>3, <3>1, LeavesDeleted
  <2> QED
    BY <2>2, <2>3
<1>8. ASSUME NEW w \in Workers, Crash(w) PROVE [Queue!Next]_(Queue!vars)
  <2>1. held[w] \in Jobs /\ pc[w] # "idle" /\ Leave(w) /\ jobs' = jobs
    BY <1>0, <1>8, HoldsJob DEF Crash
  <2>2. CASE Exists(jobs[held[w]])
    <3>1. jobs[held[w]].status = "running"
      BY <1>0, <2>1, <2>2, OnlyHolder
    <3>2. jobs' = [jobs EXCEPT ![held[w]] = jobs[held[w]]]
      BY <1>0, <2>1
    <3> QED
      BY <1>0, <2>1, <2>2, <3>1, <3>2, Finished
  <2>3. CASE ~Exists(jobs[held[w]])
    BY <1>0, <2>1, <2>3, LeavesDeleted
  <2> QED
    BY <2>2, <2>3
<1>9. ASSUME NEW w \in Workers, SelectRoutes(w) \/ RouteFails(w) \/ Raise(w)
      PROVE  UNCHANGED Queue!vars
  BY <1>9, Unseen DEF SelectRoutes, RouteFails, Raise
<1>10. CASE UNCHANGED vars
  BY <1>10, Unseen DEF vars
<1> QED
  BY <1>1, <1>2, <1>3, <1>4, <1>5, <1>6, <1>7, <1>8, <1>9, <1>10 DEF Next, WorkerStep

LEMMA NextFresh == QueueInv /\ [Next]_vars => Fresh'
<1> SUFFICES ASSUME QueueInv, [Next]_vars, NEW j \in Jobs, jobs'[j].status = "absent"
             PROVE  jobs'[j].attempts = 0
  BY DEF Fresh
<1>0. Inv /\ RowStep(j)
  BY NextRowStep DEF QueueInv, TimelyInv
<1>1. jobs[j].status = "absent" /\ jobs[j].attempts = 0
  BY <1>0 DEF RowStep, QueueInv, Fresh
<1> QED
  BY <1>0, <1>1 DEF RowStep

\* As long as no lease runs out under a worker at work, embedding is a queue that
\* hands every chunk to one worker at a time, at most MaxAttempts times, whatever
\* replacements, deferrals, retries and releases come between.
THEOREM QueueImplemented == Spec => ImplementsQueue
<1>1. Init => Queue!Init /\ Fresh
  <2> SUFFICES ASSUME Init PROVE Queue!Init /\ Fresh
    OBVIOUS
  <2>1. \A j \in Jobs : Holder(j) = {} /\ jobs[j].status = "absent" /\ jobs[j].attempts = 0
    BY NoJobAssumption DEF Init, Holder, NoRow
  <2>2. QueuePlace = [j \in Jobs |-> "absent"]
    BY <2>1 DEF QueuePlace
  <2>3. QueueWorker = [j \in Jobs |-> NoOne] /\ QueueTries = [j \in Jobs |-> 0]
    BY <2>1 DEF QueueWorker, QueueTries
  <2> QED
    BY <2>1, <2>2, <2>3 DEF Queue!Init, Fresh
<1>2. QueueInv /\ [Next]_vars => Fresh'
  BY NextFresh
<1>3. QueueInv /\ [Next]_vars => [overrun' = {} => Queue!Next]_(Queue!vars)
  BY NextQueue
<1>4. QueueInv <=> TimelyInv /\ Fresh
  BY DEF QueueInv
<1> QED
  BY <1>1, <1>2, <1>3, <1>4, TimelyInvHolds, PTL DEF Spec, ImplementsQueue

===============================================================================
