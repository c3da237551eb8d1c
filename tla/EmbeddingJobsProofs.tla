-------------------------- MODULE EmbeddingJobsProofs --------------------------
(***************************************************************************)
(* Theorems about EmbeddingJobs, for every set of chunks, profiles and     *)
(* workers and every MaxAttempts.  The table has no CHECK that would keep  *)
(* these facts; they follow from the statements of the repository alone.   *)
(***************************************************************************)
EXTENDS EmbeddingJobs, FiniteSetTheorems, TLAPS

\* What every row satisfies: the three invariants for one row.
Sound(r) ==
  /\ r \in Row
  /\ r.status = "pending" => r.attempts < MaxAttempts
  /\ r.status = "running" <=> r.owner # NoOne
  /\ r.status = "running" <=> r.lease # "none"
  /\ r.finished <=> r.status \in {"succeeded", "failed", "skipped"}

Inv == /\ \A j \in Jobs : Sound(jobs[j])
       /\ jobs \in [Jobs -> Row]
       /\ before \in SUBSET (Jobs \X Jobs)

-------------------------------------------------------------------------------
(* Rows *)

\* Rows that were not inserted, rows just inserted and rows deleted are sound.
LEMMA NewRowsSound == Sound(NoRow) /\ Sound(CreatedRow) /\ Sound(DeletedRow)
<1>1. MaxAttempts \in Nat /\ 0 < MaxAttempts
  BY MaxAttemptsAssumption
<1>2. NoRow \in Row
  BY <1>1 DEF Row, NoRow
<1>3. CreatedRow \in Row /\ DeletedRow \in Row
  BY <1>2 DEF Row, CreatedRow, DeletedRow, Status
<1> QED
  BY <1>1, <1>2, <1>3 DEF Sound, NoRow, CreatedRow, DeletedRow

\* A claim spends an attempt the row still has; only rows that are not settled are
\* claimed.
LEMMA ClaimedRowSound ==
  ASSUME NEW r, Sound(r), r.attempts < MaxAttempts, ~r.finished, NEW w \in Workers
  PROVE  Sound(ClaimedRow(r, w))
<1>1. w # NoOne
  BY OwnersAssumption
<1>2. r.attempts + 1 \in 0..MaxAttempts
  BY MaxAttemptsAssumption DEF Sound, Row
<1>3. ClaimedRow(r, w) \in Row
  BY <1>2 DEF Sound, Row, ClaimedRow, Status
<1> QED
  BY <1>1, <1>3 DEF Sound, Row, ClaimedRow

\* Settling a row, whatever its status was, clears its lease.
LEMMA SettledRowSound ==
  ASSUME NEW r, Sound(r), NEW outcome \in {"succeeded", "failed", "skipped"}
  PROVE  Sound(SettledRow(r, outcome))
  BY DEF Sound, Row, SettledRow, Status

\* A deferral, of a settled row too, gives the row to the gate.
LEMMA DeferredRowSound ==
  ASSUME NEW r, Sound(r)
  PROVE  Sound(DeferredRow(r))
<1>1. Gate # NoOne
  BY OwnersAssumption
<1> QED
  BY <1>1 DEF Sound, Row, DeferredRow, Status

\* A row goes back to the queue only with an attempt left.
LEMMA PendingRowSound ==
  ASSUME NEW r, Sound(r), r.attempts < MaxAttempts
  PROVE  Sound(PendingRow(r))
  BY DEF Sound, Row, PendingRow, Status

\* The clock and a heartbeat change the lease of a running row only.
LEMMA LeaseRowSound ==
  ASSUME NEW r, Sound(r), r.lease # "none", NEW l \in {"live", "expired"}
  PROVE  Sound([r EXCEPT !.lease = l])
  BY DEF Sound, Row

\* What a claim may take has an attempt left and is not settled.
LEMMA ClaimableHasAttempt ==
  ASSUME NEW rows, \A k \in Jobs : Sound(rows[k]), NEW visible \in SUBSET Jobs,
         NEW j \in ClaimNext(rows, before, visible)
  PROVE  j \in Jobs /\ rows[j].attempts < MaxAttempts /\ ~rows[j].finished
  BY DEF ClaimNext, Reclaimable, Expired, Sound

\* The order of creation keeps its type.
LEMMA CreatedType ==
  ASSUME Inv, NEW new \in SUBSET Jobs
  PROVE  Created(jobs, before, new) \in SUBSET (Jobs \X Jobs)
  BY DEF Created, Inv

-------------------------------------------------------------------------------
(* The inductive invariant *)

LEMMA InitInv == Init => Inv
  BY NewRowsSound DEF Init, Inv, Sound

\* A step that gives one row a sound value and leaves the order alone keeps Inv.
LEMMA OneRowChanges ==
  ASSUME Inv, NEW j \in Jobs, NEW r, Sound(r),
         jobs' = [jobs EXCEPT ![j] = r], UNCHANGED before
  PROVE  Inv'
  BY DEF Inv, Sound

LEMMA NextInv == Inv /\ [Next]_vars => Inv'
<1> SUFFICES ASSUME Inv, [Next]_vars PROVE Inv'
  OBVIOUS
<1> USE DEF Inv
<1>1. ASSUME NEW new \in SUBSET Jobs, Create(new) PROVE Inv'
  <2>1. \A j \in Jobs : Sound(jobs'[j]) /\ jobs'[j] \in Row
    BY <1>1, NewRowsSound DEF Create, Sound
  <2> QED
    BY <1>1, <2>1, CreatedType DEF Create
<1>2. ASSUME NEW old \in SUBSET Jobs, NEW new \in SUBSET Jobs, Replace(old, new)
      PROVE  Inv'
  <2>1. \A j \in Jobs : Sound(jobs'[j]) /\ jobs'[j] \in Row
    BY <1>2, NewRowsSound DEF Replace, Sound
  <2> QED
    BY <1>2, <2>1, CreatedType DEF Replace
<1>3. ASSUME NEW w \in Workers, Claim(w) PROVE Inv'
  <2>1. PICK visible \in SUBSET Jobs : \E j \in ClaimNext(jobs, before, visible) :
          jobs' = [jobs EXCEPT ![j] = ClaimedRow(@, w)] /\ UNCHANGED before
    BY <1>3 DEF Claim
  <2>2. PICK j \in ClaimNext(jobs, before, visible) :
          jobs' = [jobs EXCEPT ![j] = ClaimedRow(@, w)] /\ UNCHANGED before
    BY <2>1
  <2>3. j \in Jobs /\ jobs[j].attempts < MaxAttempts /\ ~jobs[j].finished
    BY ClaimableHasAttempt
  <2>4. Sound(ClaimedRow(jobs[j], w))
    BY <2>3, ClaimedRowSound
  <2> QED
    BY <2>2, <2>3, <2>4, OneRowChanges
<1>4. ASSUME NEW j \in Jobs, NEW w \in Workers, Heartbeat(j, w) PROVE Inv'
  <2>1. jobs[j].lease # "none"
    BY <1>4 DEF Heartbeat, Sound
  <2>2. Sound([jobs[j] EXCEPT !.lease = "live"])
    BY <2>1, LeaseRowSound
  <2> QED
    BY <1>4, <2>2, OneRowChanges DEF Heartbeat
<1>5. ASSUME NEW j \in Jobs, MarkSucceeded(j) PROVE Inv'
  BY <1>5, SettledRowSound, OneRowChanges DEF MarkSucceeded
<1>6. ASSUME NEW j \in Jobs, MarkFailed(j) PROVE Inv'
  BY <1>6, SettledRowSound, OneRowChanges DEF MarkFailed
<1>7. ASSUME NEW j \in Jobs, MarkSkipped(j) PROVE Inv'
  BY <1>7, SettledRowSound, OneRowChanges DEF MarkSkipped
<1>8. ASSUME NEW j \in Jobs, Defer(j) PROVE Inv'
  BY <1>8, DeferredRowSound, OneRowChanges DEF Defer
<1>9. ASSUME NEW j \in Jobs, Retry(j) PROVE Inv'
  BY <1>9, PendingRowSound, OneRowChanges DEF Retry, Retryable
<1>10. ASSUME NEW j \in Jobs, ReleaseStale(j) PROVE Inv'
  BY <1>10, PendingRowSound, OneRowChanges DEF ReleaseStale, Reclaimable
<1>11. ASSUME NEW j \in Jobs, LeaseExpires(j) PROVE Inv'
  <2>1. jobs[j].lease # "none"
    BY <1>11 DEF LeaseExpires
  <2>2. Sound([jobs[j] EXCEPT !.lease = "expired"])
    BY <2>1, LeaseRowSound
  <2> QED
    BY <1>11, <2>2, OneRowChanges DEF LeaseExpires
<1>12. CASE UNCHANGED vars
  BY <1>12 DEF vars
<1> QED
  BY <1>1, <1>2, <1>3, <1>4, <1>5, <1>6, <1>7, <1>8, <1>9, <1>10, <1>11, <1>12
     DEF Next

LEMMA InvImplies == Inv => TypeOK /\ WithinBudget /\ LeasedIffRunning /\ FinishedIffSettled
  BY MaxAttemptsAssumption
     DEF Inv, TypeOK, WithinBudget, LeasedIffRunning, FinishedIffSettled, Sound, Row

LEMMA InvHolds == Spec => []Inv
  BY InitInv, NextInv, PTL DEF Spec

-------------------------------------------------------------------------------
(* Theorems *)

\* Every row of embedding_jobs keeps its type under any sequence of calls.
THEOREM TypeCorrect == Spec => []TypeOK
  BY InvHolds, InvImplies, PTL

\* No sequence of claims, deferrals, releases and retries, single or in bulk, claims
\* a job more often than max_attempts or queues one without an attempt left.
THEOREM BudgetHolds == Spec => []WithinBudget
  BY InvHolds, InvImplies, PTL

\* Owner and lease are set exactly while a job runs or is deferred.
THEOREM LeaseColumnsHold == Spec => []LeasedIffRunning
  BY InvHolds, InvImplies, PTL

\* finished_at is set exactly for settled jobs, late deferrals included.
THEOREM FinishColumnHolds == Spec => []FinishedIffSettled
  BY InvHolds, InvImplies, PTL

-------------------------------------------------------------------------------
(* The order of creation *)

\* created_at orders the jobs that were inserted, but not those of one transaction.
OrderInv ==
  /\ \A k, j \in Jobs : <<k, j>> \in before =>
       jobs[k].status # "absent" /\ jobs[j].status # "absent"
  /\ \A j \in Jobs : <<j, j>> \notin before
  /\ \A i, j, k \in Jobs : <<i, j>> \in before /\ <<j, k>> \in before => <<i, k>> \in before

LEMMA LeastNatural ==
  ASSUME NEW T \in SUBSET Nat, T # {}
  PROVE  \E n \in T : \A m \in T : n <= m
<1> DEFINE R == OpToRel(<, Nat)
<1>1. IsWellFoundedOn(R, Nat)
  BY NatLessThanWellFounded
<1>2. \A m, n \in Nat : m < n => <<m, n>> \in R
  BY DEF OpToRel
<1> HIDE DEF R
<1>3. PICK n \in T : \A m \in T : ~(<<m, n>> \in R)
  BY <1>1, WFMin
<1>4. ASSUME NEW m \in T PROVE n <= m
  <2>1. m \in Nat /\ n \in Nat /\ ~(m < n)
    BY <1>2, <1>3
  <2> QED
    BY <2>1
<1> QED
  BY <1>4

\* A finite set has an element with none of the others before it: one with the least
\* number of others before it.
LEMMA HasFirst ==
  ASSUME NEW S, IsFiniteSet(S), S # {}, NEW R,
         \A x \in S : <<x, x>> \notin R,
         \A x, y, z \in S : <<x, y>> \in R /\ <<y, z>> \in R => <<x, z>> \in R
  PROVE  \E x \in S : \A y \in S : <<y, x>> \notin R
<1> DEFINE Earlier(x) == {y \in S : <<y, x>> \in R}
           T == {Cardinality(Earlier(x)) : x \in S}
<1>1. ASSUME NEW x \in S
      PROVE  IsFiniteSet(Earlier(x)) /\ Cardinality(Earlier(x)) \in Nat
  <2>1. Earlier(x) \in SUBSET S
    OBVIOUS
  <2> HIDE DEF Earlier
  <2> QED
    BY <2>1, FS_Subset, FS_CardinalityType
<1>2. T \in SUBSET Nat /\ T # {}
  <2>1. \A x \in S : Cardinality(Earlier(x)) \in Nat
    BY <1>1
  <2> HIDE DEF Earlier
  <2>2. \A n \in T : n \in Nat
    BY <2>1
  <2>3. PICK x : x \in S
    OBVIOUS
  <2>4. Cardinality(Earlier(x)) \in T
    BY <2>3
  <2> QED
    BY <2>2, <2>4
<1>3. PICK n \in T : \A m \in T : n <= m
  <2> HIDE DEF T
  <2> QED
    BY <1>2, LeastNatural
<1>4. PICK x \in S : Cardinality(Earlier(x)) = n
  OBVIOUS
<1>5. ASSUME NEW y \in S, <<y, x>> \in R PROVE FALSE
  <2>1. Earlier(y) \in SUBSET Earlier(x) /\ Earlier(y) # Earlier(x)
    BY <1>5
  <2>2. n <= Cardinality(Earlier(y))
    <3>1. Cardinality(Earlier(y)) \in T
      OBVIOUS
    <3> HIDE DEF T
    <3> QED
      BY <1>3, <3>1
  <2> HIDE DEF Earlier
  <2>3. /\ Cardinality(Earlier(y)) <= Cardinality(Earlier(x))
        /\ Cardinality(Earlier(y)) # Cardinality(Earlier(x))
    BY <1>1, <2>1, FS_Subset
  <2> QED
    BY <1>1, <1>4, <2>2, <2>3
<1> QED
  BY <1>5

\* A statement on a job that was inserted leaves it inserted.
LEMMA OrderInvStays ==
  ASSUME Inv, OrderInv, NEW j \in Jobs, NEW r, jobs' = [jobs EXCEPT ![j] = r],
         r.status # "absent", UNCHANGED before
  PROVE  OrderInv'
  BY DEF Inv, OrderInv

\* New jobs come behind all that were there, deleted ones included.
LEMMA OrderInvCreated ==
  ASSUME Inv, OrderInv, NEW new \in SUBSET Jobs, \A j \in new : jobs[j].status = "absent",
         \A j \in Jobs : jobs'[j].status = "absent" => jobs[j].status = "absent" /\ j \notin new,
         before' = Created(jobs, before, new)
  PROVE  OrderInv'
<1>1. \A k, j \in Jobs : <<k, j>> \in before' <=>
        <<k, j>> \in before \/ (jobs[k].status # "absent" /\ j \in new)
  BY DEF Created, Inv
<1> QED
  BY <1>1 DEF OrderInv

LEMMA NextOrderInv == Inv /\ OrderInv /\ [Next]_vars => OrderInv'
<1> SUFFICES ASSUME Inv, OrderInv, [Next]_vars PROVE OrderInv'
  OBVIOUS
<1>0. \A j \in Jobs : jobs[j] \in Row
  BY DEF Inv
<1>1. ASSUME NEW new \in SUBSET Jobs, Create(new) PROVE OrderInv'
  <2>1. \A j \in Jobs : jobs'[j].status = "absent" => jobs[j].status = "absent" /\ j \notin new
    BY <1>1 DEF Create, CreatedRow, NoRow
  <2> QED
    BY <1>1, <2>1, OrderInvCreated DEF Create
<1>2. ASSUME NEW old \in SUBSET Jobs, NEW new \in SUBSET Jobs, Replace(old, new)
      PROVE  OrderInv'
  <2>1. CreatedRow.status = "pending" /\ DeletedRow.status = "deleted"
    BY DEF CreatedRow, DeletedRow, NoRow
  <2>2. \A j \in Jobs : jobs'[j].status = "absent" => jobs[j].status = "absent" /\ j \notin new
    BY <1>2, <2>1 DEF Replace
  <2> QED
    BY <1>2, <2>2, OrderInvCreated DEF Replace
<1>3. ASSUME NEW w \in Workers, Claim(w) PROVE OrderInv'
  <2>1. PICK visible \in SUBSET Jobs : \E j \in ClaimNext(jobs, before, visible) :
          jobs' = [jobs EXCEPT ![j] = ClaimedRow(@, w)] /\ UNCHANGED before
    BY <1>3 DEF Claim
  <2>2. PICK j \in ClaimNext(jobs, before, visible) :
          jobs' = [jobs EXCEPT ![j] = ClaimedRow(jobs[j], w)] /\ UNCHANGED before
    BY <2>1
  <2>3. j \in Jobs
    BY DEF ClaimNext
  <2>4. ClaimedRow(jobs[j], w).status # "absent"
    BY <1>0, <2>3 DEF ClaimedRow, Row
  <2> QED
    BY <2>2, <2>3, <2>4, OrderInvStays
<1>4. ASSUME NEW j \in Jobs, NEW w \in Workers, Heartbeat(j, w) PROVE OrderInv'
  <2>1. [jobs[j] EXCEPT !.lease = "live"].status # "absent"
    BY <1>0, <1>4 DEF Heartbeat, Row
  <2> QED
    BY <1>4, <2>1, OrderInvStays DEF Heartbeat
<1>5. ASSUME NEW j \in Jobs,
             MarkSucceeded(j) \/ MarkFailed(j) \/ MarkSkipped(j) \/ Defer(j)
      PROVE  OrderInv'
  <2>1. /\ \A o \in {"succeeded", "failed", "skipped"} : SettledRow(jobs[j], o).status # "absent"
        /\ DeferredRow(jobs[j]).status # "absent"
    BY <1>0 DEF SettledRow, DeferredRow, Row
  <2> QED
    BY <1>5, <2>1, OrderInvStays DEF MarkSucceeded, MarkFailed, MarkSkipped, Defer
<1>6. ASSUME NEW j \in Jobs, Retry(j) \/ ReleaseStale(j) PROVE OrderInv'
  <2>1. PendingRow(jobs[j]).status # "absent"
    BY <1>0 DEF PendingRow, Row
  <2> QED
    BY <1>6, <2>1, OrderInvStays DEF Retry, ReleaseStale
<1>7. ASSUME NEW j \in Jobs, LeaseExpires(j) PROVE OrderInv'
  <2>1. jobs[j].status # "absent"
    BY <1>7 DEF LeaseExpires, Inv, Sound
  <2>2. [jobs[j] EXCEPT !.lease = "expired"].status # "absent"
    BY <1>0, <2>1 DEF Row
  <2> QED
    BY <1>7, <2>2, OrderInvStays DEF LeaseExpires
<1>8. CASE UNCHANGED vars
  BY <1>8 DEF vars, OrderInv
<1> QED
  BY <1>1, <1>2, <1>3, <1>4, <1>5, <1>6, <1>7, <1>8 DEF Next

LEMMA InitOrderInv == Init => OrderInv
  BY DEF Init, OrderInv

\* Of the finitely many jobs that a claim may see, it finds one if one is pending or its
\* lease expired with an attempt left, and no pending job it sees is older.
ClaimFindsAnOldest ==
  \A visible \in SUBSET Jobs :
    IsFiniteSet(visible) /\ (\E j \in visible : jobs[j].status = "pending" \/ Reclaimable(jobs[j]))
    => /\ ClaimNext(jobs, before, visible) # {}
       /\ \A j \in ClaimNext(jobs, before, visible), k \in visible :
            jobs[k].status = "pending" =>
              jobs[j].status = "pending" /\ <<k, j>> \notin before

\* Creations and deletions in any order leave no cycle in the order of creation in which
\* claim_next_embedding_job could overlook all jobs, or a younger job pass an older one.
THEOREM ClaimFindsAnOldestHolds == Spec => []ClaimFindsAnOldest
<1>1. OrderInv => ClaimFindsAnOldest
  <2> SUFFICES ASSUME OrderInv, NEW visible \in SUBSET Jobs, IsFiniteSet(visible),
                      \E j \in visible : jobs[j].status = "pending" \/ Reclaimable(jobs[j])
               PROVE  /\ ClaimNext(jobs, before, visible) # {}
                      /\ \A j \in ClaimNext(jobs, before, visible), k \in visible :
                           jobs[k].status = "pending" =>
                             jobs[j].status = "pending" /\ <<k, j>> \notin before
    BY DEF ClaimFindsAnOldest
  <2> DEFINE pending == {j \in visible : jobs[j].status = "pending"}
             stale == {j \in visible : Reclaimable(jobs[j])}
             pool == IF pending # {} THEN pending ELSE stale
  <2>1. pool # {} /\ pool \in SUBSET visible
    OBVIOUS
  <2>2. ClaimNext(jobs, before, visible) =
          {j \in pool : \A k \in pool \ {j} : <<k, j>> \notin before}
    BY DEF ClaimNext
  <2>3. \A k \in visible : jobs[k].status = "pending" =>
          k \in pool /\ \A j \in pool : jobs[j].status = "pending"
    OBVIOUS
  <2> HIDE DEF pool
  <2>4. IsFiniteSet(pool)
    BY <2>1, FS_Subset
  <2>5. /\ \A x \in pool : <<x, x>> \notin before
        /\ \A x, y, z \in pool :
             <<x, y>> \in before /\ <<y, z>> \in before => <<x, z>> \in before
    BY <2>1 DEF OrderInv
  <2>6. \E x \in pool : \A y \in pool : <<y, x>> \notin before
    BY <2>1, <2>4, <2>5, HasFirst
  <2> QED
    BY <2>2, <2>3, <2>5, <2>6
<1> QED
  BY <1>1, InvHolds, InitOrderInv, NextOrderInv, PTL DEF Spec

===============================================================================
