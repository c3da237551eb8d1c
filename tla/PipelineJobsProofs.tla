--------------------------- MODULE PipelineJobsProofs ---------------------------
(***************************************************************************)
(* Theorems about PipelineJobs, for every set of jobs and workers and      *)
(* every MaxAttempts.                                                      *)
(***************************************************************************)
EXTENDS PipelineJobs, FiniteSetTheorems, TLAPS

-------------------------------------------------------------------------------
(* What one SQL statement of the job repository makes of one row *)

\* What every row of the table satisfies: WithinBudget, LeasedIffRunning and
\* OutcomeColumns for one row.
Sound(r) ==
  /\ r \in Row
  /\ r.status = "queued" => r.attempts < MaxAttempts
  /\ r.status = "running" <=> r.owner # NoOne
  /\ r.status = "running" <=> r.lease # "none"
  /\ r.finished <=> r.status \in {"succeeded", "failed"}
  /\ r.error <=> r.status = "failed"

\* The row before the insert and the row the insert creates are sound.
LEMMA NewRowsSound == Sound(NoRow) /\ Sound(CreatedRow)
<1>1. MaxAttempts \in Nat /\ 0 < MaxAttempts /\ TotalUnits \in Nat
  BY MaxAttemptsAssumption, TotalUnitsAssumption
<1>2. NoRow \in Row
  BY <1>1 DEF Row, NoRow, Stage
<1>3. CreatedRow \in Row
  BY <1>2 DEF Row, CreatedRow, Status
<1> QED
  BY <1>1, <1>2, <1>3 DEF Sound, NoRow, CreatedRow

\* A claim spends an attempt the row still has; only rows without an outcome are
\* claimed.
LEMMA ClaimedRowSound ==
  ASSUME NEW r, Sound(r), r.attempts < MaxAttempts, r.status \in {"queued", "running"},
         NEW w \in Workers
  PROVE  Sound(ClaimedRow(r, w))
<1>1. w # NoOne
  BY WorkersAssumption
<1>2. r.attempts + 1 \in 0..MaxAttempts
  BY MaxAttemptsAssumption DEF Sound, Row
<1>3. ClaimedRow(r, w) \in Row
  BY <1>2 DEF Sound, Row, ClaimedRow, Status
<1> QED
  BY <1>1, <1>3 DEF Sound, Row, ClaimedRow

\* Progress leaves alone what soundness speaks of.
LEMMA ProgressRowSound ==
  ASSUME NEW r, Sound(r), NEW n \in 0..TotalUnits, NEW t \in 0..TotalUnits,
         NEW s \in Stage
  PROVE  Sound(ProgressRow(r, n, t, s))
  BY DEF Sound, Row, ProgressRow

\* Settling a row, whatever its status was, clears its lease.
LEMMA SettledRowsSound ==
  ASSUME NEW r, Sound(r)
  PROVE  Sound(SucceededRow(r)) /\ Sound(FailedRow(r))
  BY DEF Sound, Row, SucceededRow, FailedRow, Status, Stage

\* A row goes back to the queue only with an attempt left.
LEMMA RetriedRowSound ==
  ASSUME NEW r, Sound(r), Retryable(r)
  PROVE  Sound(RetriedRow(r))
  BY DEF Sound, Row, RetriedRow, Retryable, Status

\* The clock and a heartbeat change the lease of a running row only.
LEMMA LeaseRowSound ==
  ASSUME NEW r, Sound(r), r.lease # "none", NEW l \in {"live", "expired"}
  PROVE  Sound([r EXCEPT !.lease = l])
  BY DEF Sound, Row

\* What a claim may take has an attempt left and no outcome.
LEMMA ClaimableHasAttempt ==
  ASSUME NEW rows, \A k \in Jobs : Sound(rows[k]), NEW order, NEW locked,
         NEW j \in ClaimNext(rows, order, locked)
  PROVE  /\ j \in Jobs
         /\ rows[j].attempts < MaxAttempts
         /\ rows[j].status \in {"queued", "running"}
  BY DEF ClaimNext, Reclaimable, Sound

\* The queue order keeps its type.
LEMMA RequeuedType ==
  ASSUME NEW rows, NEW order \in SUBSET (Jobs \X Jobs), NEW j \in Jobs
  PROVE  Requeued(rows, order, j) \in SUBSET (Jobs \X Jobs)
  BY DEF Requeued

-------------------------------------------------------------------------------
(* The inductive invariant *)

Inv == /\ \A j \in Jobs : Sound(jobs[j])
       /\ jobs \in [Jobs -> Row]
       /\ before \in SUBSET (Jobs \X Jobs)

LEMMA InitInv == Init => Inv
  BY NewRowsSound DEF Init, Inv, Sound

\* A step that gives one row a sound value and keeps the order's type keeps Inv.
LEMMA OneRowChanges ==
  ASSUME Inv, NEW j \in Jobs, NEW r, Sound(r),
         jobs' = [jobs EXCEPT ![j] = r],
         before' \in SUBSET (Jobs \X Jobs)
  PROVE  Inv'
  BY DEF Inv, Sound

LEMMA NextInv == Inv /\ [Next]_vars => Inv'
<1> SUFFICES ASSUME Inv, [Next]_vars PROVE Inv'
  OBVIOUS
<1> USE DEF Inv
<1>1. ASSUME NEW j \in Jobs, Create(j) PROVE Inv'
  BY <1>1, NewRowsSound, OneRowChanges, RequeuedType DEF Create
<1>2. ASSUME NEW w \in Workers, Claim(w) PROVE Inv'
  <2>1. PICK locked \in SUBSET Jobs : \E j \in ClaimNext(jobs, before, locked) :
          jobs' = [jobs EXCEPT ![j] = ClaimedRow(@, w)] /\ UNCHANGED before
    BY <1>2 DEF Claim
  <2>2. PICK j \in ClaimNext(jobs, before, locked) :
          jobs' = [jobs EXCEPT ![j] = ClaimedRow(@, w)] /\ UNCHANGED before
    BY <2>1
  <2>3. j \in Jobs /\ jobs[j].attempts < MaxAttempts /\ jobs[j].status \in {"queued", "running"}
    BY ClaimableHasAttempt
  <2>4. Sound(ClaimedRow(jobs[j], w))
    BY <2>3, ClaimedRowSound
  <2> QED
    BY <2>2, <2>3, <2>4, OneRowChanges
<1>3. ASSUME NEW j \in Jobs, NEW w \in Workers, Heartbeat(j, w) PROVE Inv'
  <2>1. jobs[j].lease # "none"
    BY <1>3 DEF Heartbeat, Sound
  <2>2. Sound([jobs[j] EXCEPT !.lease = "live"])
    BY <2>1, LeaseRowSound
  <2> QED
    BY <1>3, <2>2, OneRowChanges DEF Heartbeat
<1>4. ASSUME NEW j \in Jobs, NEW n \in 0..TotalUnits, NEW t \in 0..TotalUnits,
             NEW s \in Stage, Progress(j, n, t, s)
      PROVE  Inv'
  BY <1>4, ProgressRowSound, OneRowChanges DEF Progress
<1>5. ASSUME NEW j \in Jobs, MarkSucceeded(j) PROVE Inv'
  BY <1>5, SettledRowsSound, OneRowChanges DEF MarkSucceeded
<1>6. ASSUME NEW j \in Jobs, MarkFailed(j) PROVE Inv'
  BY <1>6, SettledRowsSound, OneRowChanges DEF MarkFailed
<1>7. ASSUME NEW j \in Jobs, Retry(j) PROVE Inv'
  BY <1>7, RetriedRowSound, OneRowChanges, RequeuedType DEF Retry
<1>8. ASSUME NEW j \in Jobs, LeaseExpires(j) PROVE Inv'
  <2>1. jobs[j].lease # "none"
    BY <1>8 DEF LeaseExpires
  <2>2. Sound([jobs[j] EXCEPT !.lease = "expired"])
    BY <2>1, LeaseRowSound
  <2> QED
    BY <1>8, <2>2, OneRowChanges DEF LeaseExpires
<1>9. CASE UNCHANGED vars
  BY <1>9 DEF vars
<1> QED
  BY <1>1, <1>2, <1>3, <1>4, <1>5, <1>6, <1>7, <1>8, <1>9 DEF Next

LEMMA InvImplies ==
  Inv => TypeOK /\ WithinBudget /\ LeasedIffRunning /\ OutcomeColumns
  BY MaxAttemptsAssumption
     DEF Inv, TypeOK, WithinBudget, LeasedIffRunning, OutcomeColumns, Sound, Row

LEMMA InvHolds == Spec => []Inv
  BY InitInv, NextInv, PTL DEF Spec

-------------------------------------------------------------------------------
(* Theorems *)

\* Every row of pipeline_jobs keeps its type under any sequence of calls; with it
\* attempts never passes max_attempts.
THEOREM TypeCorrect == Spec => []TypeOK
  BY InvHolds, InvImplies, PTL

\* No sequence of claims, late results and retries queues a job that has no
\* attempt left.
THEOREM BudgetHolds == Spec => []WithinBudget
  BY InvHolds, InvImplies, PTL

\* The lease columns are set exactly while a job runs, under any sequence of calls.
THEOREM LeaseColumnsHold == Spec => []LeasedIffRunning
  BY InvHolds, InvImplies, PTL

\* error_code and finished_at tell the outcome of the last attempt, whatever late
\* results, retries and claims came before.
THEOREM OutcomeColumnsHold == Spec => []OutcomeColumns
  BY InvHolds, InvImplies, PTL

\* Attempts of a running job grow only by a claim, and a claim takes a running job
\* only when its lease has expired.
LEMMA StepTakesExpired ==
  ASSUME Inv, [Next]_vars
  PROVE  \A j \in Jobs :
           jobs[j].status = "running" /\ jobs'[j].status = "running"
             /\ jobs'[j].attempts # jobs[j].attempts
           => jobs[j].lease = "expired"
<1> SUFFICES ASSUME NEW k \in Jobs, jobs[k].status = "running",
                    jobs'[k].status = "running", jobs'[k].attempts # jobs[k].attempts
             PROVE  jobs[k].lease = "expired"
  OBVIOUS
<1> USE DEF Inv
<1>1. ASSUME NEW w \in Workers, Claim(w) PROVE jobs[k].lease = "expired"
  <2>1. PICK locked \in SUBSET Jobs : \E j \in ClaimNext(jobs, before, locked) :
          jobs' = [jobs EXCEPT ![j] = ClaimedRow(@, w)]
    BY <1>1 DEF Claim
  <2>2. PICK j \in ClaimNext(jobs, before, locked) :
          jobs' = [jobs EXCEPT ![j] = ClaimedRow(@, w)]
    BY <2>1
  <2>3. k = j
    BY <2>2
  <2> QED
    BY <2>3 DEF ClaimNext, Reclaimable
<1>2. ASSUME NEW j \in Jobs, Create(j) PROVE FALSE
  BY <1>2 DEF Create, Exists
<1>3. ASSUME NEW j \in Jobs, Retry(j) PROVE FALSE
  BY <1>3 DEF Retry, RetriedRow, Retryable, Sound, Row
<1>4. ASSUME NEW j \in Jobs, NEW n, NEW t, NEW s, Progress(j, n, t, s) PROVE FALSE
  BY <1>4 DEF Progress, ProgressRow, Sound, Row
<1>5. ASSUME NEW j \in Jobs, MarkSucceeded(j) \/ MarkFailed(j) PROVE FALSE
  <2>1. jobs[j] \in Row
    BY DEF Sound
  <2>2. SucceededRow(jobs[j]).status = "succeeded" /\ FailedRow(jobs[j]).status = "failed"
    BY <2>1 DEF SucceededRow, FailedRow, Row
  <2>3. jobs'[j].status # "running" /\ (k # j => jobs'[k] = jobs[k])
    BY <1>5, <2>2 DEF MarkSucceeded, MarkFailed
  <2> QED
    BY <2>3
<1>6. ASSUME NEW j \in Jobs, LeaseExpires(j) PROVE FALSE
  BY <1>6 DEF LeaseExpires, Sound, Row
<1>7. ASSUME NEW j \in Jobs, NEW w, Heartbeat(j, w) PROVE FALSE
  BY <1>7 DEF Heartbeat, Sound, Row
<1>8. CASE UNCHANGED vars
  BY <1>8 DEF vars
<1> QED
  BY <1>1, <1>2, <1>3, <1>4, <1>5, <1>6, <1>7, <1>8 DEF Next

\* No worker loses a running job to another one before its lease ran out.
THEOREM NoStolenLeaseHolds == Spec => NoStolenLease
<1>1. Inv /\ [Next]_vars =>
        [\A j \in Jobs :
           jobs[j].status = "running" /\ jobs'[j].status = "running"
             /\ jobs'[j].attempts # jobs[j].attempts
           => jobs[j].lease = "expired"]_vars
  BY StepTakesExpired
<1> QED
  BY <1>1, InvHolds, PTL DEF Spec, NoStolenLease

-------------------------------------------------------------------------------
(* The order of the queue *)

Inserted == {j \in Jobs : jobs[j].status # "absent"}

\* R is a strict total order of S.
Orders(R, S) ==
  /\ R \subseteq S \X S
  /\ \A x \in S : <<x, x>> \notin R
  /\ \A x, y \in S : x # y => <<x, y>> \in R \/ <<y, x>> \in R
  /\ \A x, y, z \in S : <<x, y>> \in R /\ <<y, z>> \in R => <<x, z>> \in R

\* There are finitely many rows, and queued_at tells any two of them apart.
QueueOrdered == IsFiniteSet(Inserted) /\ Orders(before, Inserted)

LEMMA LeastNatural ==
  ASSUME NEW T \in SUBSET Nat, T # {}
  PROVE  \E n \in T : \A m \in T : n <= m
<1> DEFINE R == OpToRel(<, Nat)
<1>1. IsWellFoundedOn(R, Nat)
  BY NatLessThanWellFounded
<1>2. \A m, n \in Nat : m < n => <<m, n>> \in R
  BY DEF OpToRel
<1> HIDE DEF R
<1>3. PICK n \in T : \A m \in T : ~(<<m, n>> \in R)
  BY <1>1, WFMin
<1>4. ASSUME NEW m \in T PROVE n <= m
  <2>1. m \in Nat /\ n \in Nat /\ ~(m < n)
    BY <1>2, <1>3
  <2> QED
    BY <2>1
<1> QED
  BY <1>4

\* A finite set has an element with none of the others before it: one with the least
\* number of others before it.
LEMMA HasFirst ==
  ASSUME NEW S, IsFiniteSet(S), S # {}, NEW R,
         \A x \in S : <<x, x>> \notin R,
         \A x, y, z \in S : <<x, y>> \in R /\ <<y, z>> \in R => <<x, z>> \in R
  PROVE  \E x \in S : \A y \in S : <<y, x>> \notin R
<1> DEFINE Earlier(x) == {y \in S : <<y, x>> \in R}
           T == {Cardinality(Earlier(x)) : x \in S}
<1>1. ASSUME NEW x \in S
      PROVE  IsFiniteSet(Earlier(x)) /\ Cardinality(Earlier(x)) \in Nat
  <2>1. Earlier(x) \in SUBSET S
    OBVIOUS
  <2> HIDE DEF Earlier
  <2> QED
    BY <2>1, FS_Subset, FS_CardinalityType
<1>2. T \in SUBSET Nat /\ T # {}
  <2>1. \A x \in S : Cardinality(Earlier(x)) \in Nat
    BY <1>1
  <2> HIDE DEF Earlier
  <2>2. \A n \in T : n \in Nat
    BY <2>1
  <2>3. PICK x : x \in S
    OBVIOUS
  <2>4. Cardinality(Earlier(x)) \in T
    BY <2>3
  <2> QED
    BY <2>2, <2>4
<1>3. PICK n \in T : \A m \in T : n <= m
  <2> HIDE DEF T
  <2> QED
    BY <1>2, LeastNatural
<1>4. PICK x \in S : Cardinality(Earlier(x)) = n
  OBVIOUS
<1>5. ASSUME NEW y \in S, <<y, x>> \in R PROVE FALSE
  <2>1. Earlier(y) \in SUBSET Earlier(x) /\ Earlier(y) # Earlier(x)
    BY <1>5
  <2>2. n <= Cardinality(Earlier(y))
    <3>1. Cardinality(Earlier(y)) \in T
      OBVIOUS
    <3> HIDE DEF T
    <3> QED
      BY <1>3, <3>1
  <2> HIDE DEF Earlier
  <2>3. /\ Cardinality(Earlier(y)) <= Cardinality(Earlier(x))
        /\ Cardinality(Earlier(y)) # Cardinality(Earlier(x))
    BY <1>1, <2>1, FS_Subset
  <2> QED
    BY <1>1, <1>4, <2>2, <2>3
<1> QED
  BY <1>5

\* The job that is queued again goes behind all others, which keep their order.
LEMMA RequeuedOrders ==
  ASSUME NEW rows, NEW order, NEW j \in Jobs,
         Orders(order, {k \in Jobs : rows[k].status # "absent"})
  PROVE  Orders(Requeued(rows, order, j), {k \in Jobs : rows[k].status # "absent"} \union {j})
<1> DEFINE S == {k \in Jobs : rows[k].status # "absent"}
           R == Requeued(rows, order, j)
<1>1. \A x, y : <<x, y>> \in R <=> \/ <<x, y>> \in order /\ x # j /\ y # j
                                   \/ y = j /\ x \in S \ {j}
  BY DEF Requeued
<1>2. R \subseteq (S \union {j}) \X (S \union {j})
  BY DEF Requeued, Orders
<1> HIDE DEF S, R
<1>3. Orders(order, S)
  BY DEF S
<1>4. Orders(R, S \union {j})
  BY <1>1, <1>2, <1>3 DEF Orders
<1> QED
  BY <1>4 DEF S, R

\* No statement removes a row.
LEMMA InsertedStays ==
  ASSUME Inv, NEW j \in Jobs, NEW r, jobs' = [jobs EXCEPT ![j] = r], r.status # "absent"
  PROVE  Inserted' = Inserted \union {j}
  BY DEF Inv, Inserted

LEMMA QueueOrderedStays ==
  ASSUME Inv, QueueOrdered, NEW j \in Inserted, NEW r, jobs' = [jobs EXCEPT ![j] = r],
         r.status # "absent", UNCHANGED before
  PROVE  QueueOrdered'
<1>1. Inserted' = Inserted
  BY InsertedStays DEF Inserted
<1> QED
  BY <1>1 DEF QueueOrdered

LEMMA RequeuedQueueOrdered ==
  ASSUME Inv, QueueOrdered, NEW j \in Jobs, NEW r, jobs' = [jobs EXCEPT ![j] = r],
         r.status # "absent", before' = Requeued(jobs, before, j)
  PROVE  QueueOrdered'
<1>1. Inserted' = Inserted \union {j}
  BY InsertedStays
<1>2. IsFiniteSet(Inserted')
  BY <1>1, FS_AddElement DEF QueueOrdered
<1>3. Orders(before', Inserted \union {j})
  BY RequeuedOrders DEF QueueOrdered, Inserted
<1> QED
  BY <1>1, <1>2, <1>3 DEF QueueOrdered

LEMMA NextQueueOrdered == Inv /\ QueueOrdered /\ [Next]_vars => QueueOrdered'
<1> SUFFICES ASSUME Inv, QueueOrdered, [Next]_vars PROVE QueueOrdered'
  OBVIOUS
<1>0. \A j \in Jobs : jobs[j] \in Row
  BY DEF Inv
<1>1. ASSUME NEW j \in Jobs, Create(j) PROVE QueueOrdered'
  <2>1. CreatedRow.status # "absent"
    BY DEF CreatedRow, NoRow
  <2> QED
    BY <1>1, <2>1, RequeuedQueueOrdered DEF Create
<1>2. ASSUME NEW w \in Workers, Claim(w) PROVE QueueOrdered'
  <2>1. PICK locked \in SUBSET Jobs : \E j \in ClaimNext(jobs, before, locked) :
          jobs' = [jobs EXCEPT ![j] = ClaimedRow(@, w)] /\ UNCHANGED before
    BY <1>2 DEF Claim
  <2>2. PICK j \in ClaimNext(jobs, before, locked) :
          jobs' = [jobs EXCEPT ![j] = ClaimedRow(@, w)] /\ UNCHANGED before
    BY <2>1
  <2>3. j \in Inserted
    BY DEF ClaimNext, Reclaimable, Inserted
  <2>4. jobs' = [jobs EXCEPT ![j] = ClaimedRow(jobs[j], w)]
    BY <2>2
  <2>5. ClaimedRow(jobs[j], w).status # "absent"
    BY <1>0, <2>3 DEF ClaimedRow, Row, Inserted
  <2> QED
    BY <2>2, <2>3, <2>4, <2>5, QueueOrderedStays
<1>3. ASSUME NEW j \in Jobs, NEW w \in Workers, Heartbeat(j, w) PROVE QueueOrdered'
  <2>1. j \in Inserted /\ [jobs[j] EXCEPT !.lease = "live"].status # "absent"
    BY <1>0, <1>3 DEF Heartbeat, Inserted, Row
  <2> QED
    BY <1>3, <2>1, QueueOrderedStays DEF Heartbeat
<1>4. ASSUME NEW j \in Jobs, NEW n, NEW t, NEW s, Progress(j, n, t, s) PROVE QueueOrdered'
  <2>1. j \in Inserted /\ ProgressRow(jobs[j], n, t, s).status # "absent"
    BY <1>0, <1>4 DEF Progress, Exists, Inserted, Row, ProgressRow
  <2> QED
    BY <1>4, <2>1, QueueOrderedStays DEF Progress
<1>5. ASSUME NEW j \in Jobs, MarkSucceeded(j) PROVE QueueOrdered'
  <2>1. j \in Inserted /\ SucceededRow(jobs[j]).status # "absent"
    BY <1>0, <1>5 DEF MarkSucceeded, Exists, Inserted, Row, SucceededRow
  <2> QED
    BY <1>5, <2>1, QueueOrderedStays DEF MarkSucceeded
<1>6. ASSUME NEW j \in Jobs, MarkFailed(j) PROVE QueueOrdered'
  <2>1. j \in Inserted /\ FailedRow(jobs[j]).status # "absent"
    BY <1>0, <1>6 DEF MarkFailed, Exists, Inserted, Row, FailedRow
  <2> QED
    BY <1>6, <2>1, QueueOrderedStays DEF MarkFailed
<1>7. ASSUME NEW j \in Jobs, Retry(j) PROVE QueueOrdered'
  <2>1. RetriedRow(jobs[j]).status # "absent"
    BY <1>0 DEF Row, RetriedRow
  <2> QED
    BY <1>7, <2>1, RequeuedQueueOrdered DEF Retry
<1>8. ASSUME NEW j \in Jobs, LeaseExpires(j) PROVE QueueOrdered'
  <2>1. jobs[j].status # "absent"
    BY <1>8 DEF LeaseExpires, Inv, Sound
  <2>2. j \in Inserted /\ [jobs[j] EXCEPT !.lease = "expired"].status # "absent"
    BY <1>0, <2>1 DEF Inserted, Row
  <2> QED
    BY <1>8, <2>2, QueueOrderedStays DEF LeaseExpires
<1>9. CASE UNCHANGED vars
  BY <1>9 DEF vars, QueueOrdered, Inserted
<1> QED
  BY <1>1, <1>2, <1>3, <1>4, <1>5, <1>6, <1>7, <1>8, <1>9 DEF Next

LEMMA InitQueueOrdered == Init => QueueOrdered
<1> SUFFICES ASSUME Init PROVE QueueOrdered
  OBVIOUS
<1>1. Inserted = {} /\ before = {}
  BY DEF Init, Inserted, NoRow
<1> QED
  BY <1>1, FS_EmptySet DEF QueueOrdered, Orders

\* Whichever rows other transactions hold locked, a claim finds a job if there is one to
\* be found, and it is one job: the first in the queue, or, if nothing is queued, the
\* first of those whose lease has expired.
ClaimFindsTheFirst ==
  \A locked \in SUBSET Jobs :
    (\E j \in Jobs \ locked : jobs[j].status = "queued" \/ Reclaimable(jobs[j]))
    => \E j \in Jobs \ locked : ClaimNext(jobs, before, locked) = {j}

\* Creations, retries and reclaims in any order leave claim_next_pipeline_job no tie
\* to break and no job that is overlooked.
THEOREM ClaimFindsTheFirstHolds == Spec => []ClaimFindsTheFirst
<1>1. QueueOrdered => ClaimFindsTheFirst
  <2> SUFFICES ASSUME QueueOrdered, NEW locked \in SUBSET Jobs,
                      \E j \in Jobs \ locked : jobs[j].status = "queued" \/ Reclaimable(jobs[j])
               PROVE  \E j \in Jobs \ locked : ClaimNext(jobs, before, locked) = {j}
    BY DEF ClaimFindsTheFirst
  <2> DEFINE queued == {j \in Jobs \ locked : jobs[j].status = "queued"}
             stale == {j \in Jobs \ locked : Reclaimable(jobs[j])}
             pool == IF queued # {} THEN queued ELSE stale
  <2>1. pool # {} /\ pool \subseteq Inserted /\ pool \subseteq Jobs \ locked
    BY DEF Inserted, Reclaimable
  <2>2. ClaimNext(jobs, before, locked) = {j \in pool : \A k \in pool \ {j} : <<k, j>> \notin before}
    BY DEF ClaimNext
  <2> HIDE DEF pool
  <2>3. IsFiniteSet(pool)
    BY <2>1, FS_Subset DEF QueueOrdered
  <2>4. PICK x \in pool : \A y \in pool : <<y, x>> \notin before
    <3>1. /\ \A x \in pool : <<x, x>> \notin before
          /\ \A x, y, z \in pool :
               <<x, y>> \in before /\ <<y, z>> \in before => <<x, z>> \in before
      BY <2>1 DEF QueueOrdered, Orders
    <3> QED
      BY <2>1, <2>3, <3>1, HasFirst
  <2>5. \A y \in pool \ {x} : <<x, y>> \in before
    BY <2>1, <2>4 DEF QueueOrdered, Orders
  <2>6. ClaimNext(jobs, before, locked) = {x}
    BY <2>2, <2>4, <2>5
  <2> QED
    BY <2>1, <2>6
<1> QED
  BY <1>1, InvHolds, InitQueueOrdered, NextQueueOrdered, PTL DEF Spec

===============================================================================
