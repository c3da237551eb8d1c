# NeX_PCX verification project

NeX_PCX is a retrieval-augmented generation platform: documents are uploaded,
extracted, cut into chunks, embedded and indexed, then searched and used to
generate answers. One FastAPI application, a handful of command-line workers and
operator scripts share one PostgreSQL database; there is no other shared state.
All coordination is therefore done by rows, leases and transactions, and that is
what this project specifies, model-checks with TLC and proves with TLAPS.

Paths are relative to the repository; `core/` stands for `app/core/`.

## 1. The system

### 1.1 Components

| Component | State | Operations | Hard behaviour | What makes it correct |
|---|---|---|---|---|
| Pipeline job repository, `core/pipeline_jobs.py` | table `pipeline_jobs` (status, stage, counters, attempts, lease) and an event log | create, claim, heartbeat, progress, mark succeeded / failed, retry | concurrent claims, lease expiry, late results | attempts bounded, lease columns only while running, no lease stolen |
| Ingestion worker, `core/pipeline_worker.py`, `core/file_uploads.py` | files, jobs, chunks, artifacts, BM25 rows | upload, process one job in several transactions | crash between transactions, work longer than the lease, failure path of two transactions, last transaction against those of others | one worker per job; job, file and corpus agree |
| Extraction, `core/local_extraction.py`, `core/document_parsers.py` | append-only artifacts | parse one document | - | - |
| Embedding job repository, `core/embedding_jobs.py` | table `embedding_jobs`, one row per chunk and profile | create, claim, heartbeat, mark, defer, retry, release, reconcile | no CHECK on attempts or lease; calls that test neither status nor owner | budget, lease and finish columns |
| Embedding worker, `core/embedding_worker.py` | the profiles' vector tables | claim, select routes, readiness gate, failover, store, fail, defer | chunk deleted while embedded, several route timeouts under one lease | success means a stored vector, results final |
| Chunks, `core/chunks.py`, `core/chunking.py` | table `chunks` with cascades | cut a document, replace its chunks | replacement while embedding and search run, overlap larger than what it is cut from | no orphan rows; chunks cover the document, size and overlap bounds |
| BM25 index, `core/bm25_*.py` | term and statistics rows of a policy | rebuild, search, coverage matrix | rebuild of a shared policy by two transactions: stale reads, waits, deadlocks | an undisturbed rebuild is exact, nothing is called complete that is not |
| Search, `core/*search*.py`, rerankers | none; append-only search logs | vector, hybrid, reranked search, comparison | provider failures, two rankings into one | fusion order, verdict on the results |
| Permissions, `core/permissions.py` | document security levels | visibility predicate | - | no restricted row passes |
| Retrieval context, `core/retrieval_context.py` | none | judge search results, pack them into a budget | limits, duplicates, a log deleted meanwhile | budget kept, best first |
| Generation, `core/generation_*.py` | runs, templates, citations | start, finish, fail a run; default template per language | provider call between two transactions, concurrent change of a default | run settles once; at most one default |
| Chat, `core/chat*.py` | sessions, messages | append a message, retrieve, answer | two posts to one session | sequence without holes or doubles |
| Golden questions and evaluation | questions, runs, results, metric snapshots | promote, import, run, score | partial failure of a run | counters equal the results |
| Search experiments | runs and items | run one item after another | one item fails | run status follows its items |
| Provider routes, `core/embedding_provider_route*.py` | routes, health, contract and preflight snapshots | create, probe, check, gate | a cached verdict that is stale | ready only with fresh, matching evidence |
| Preflight schedules, `core/embedding_provider_preflight_schedules.py` | due times, run counters | upsert, claim due, record run | overlapping runners, a runner slower than the interval | a due time is run once |
| Retention clean-ups | batch runs, snapshots | preview, delete | runs that are still in progress | only finished, old rows deleted |
| Foreground workers and supervisor | child processes, logs | start, restart, stop, loop the workers | a child that dies, stop during restart | all children stop, loops go on |
| Launch, shutdown, drain check | processes, pid files | start, inspect jobs and leases, signal | jobs claimed after the check | - |
| Dashboards, metrics, evidence and handoff reports | append-only snapshots | read and aggregate | - | - |
| HTTP application, `app/main.py` | none | endpoints, run concurrently by a thread pool | all of the above | - |

`PROJECT.json` lists every component with its source files, what became of it and why.

### 1.2 Interaction

An upload inserts the document, its file and a pipeline job in one transaction. An
ingestion worker claims the job, extracts the text outside any transaction and
commits chunks, embedding jobs, BM25 rows and the outcome in a long last
transaction, which rewrites the keyword index of the whole chunk policy and so meets
those of the other workers and of operators who refresh it. Embedding workers claim the embedding jobs and call an embedding
provider through a route, possibly several routes in turn; the chunk and the job
of a replaced document version disappear by cascade. Endpoints and scripts retry,
release and reconcile jobs at any time. Nobody waits for anybody: who comes next is
decided by `FOR UPDATE SKIP LOCKED` and by the clock passing `lease_expires_at`.

### 1.3 What is hard to test here

1. Every claim is made once, every result is written without looking: no write of a
   worker tests that the job is still its own.
2. No worker sends a heartbeat, so a lease outlives its work only if the work is
   short enough.
3. A failing ingestion is recorded by two transactions.
4. A job may be abandoned at every step, in its last attempt too.
5. Deferral, release and retry bring jobs back to the queue, which has no bound but
   `attempts < max_attempts` in each of these statements.
6. The chunks are replaced while other workers embed them, searches find them and
   answers cite them.
7. A question becomes an answer by up to ten transactions of one request, with
   provider calls between them; nothing but keys and foreign keys orders two requests.
8. Every ingestion rewrites the shared keyword index under READ COMMITTED: it reads the
   chunks in one statement, deletes and inserts in later ones, each with a newer
   snapshot, in no fixed order of locks.
9. Boundaries of computations on every answer's way: an overlap as long as a chunk, the
   ends of two rankings that are fused, a budget that is nearly used up.

`PROJECT.json` lists these and the others as hazards at their lines, each with the
properties that cover it or the reason why none does.

## 2. Plan

| Step | Modules | Composition and abstraction | State |
|---|---|---|---|
| 1 | `PipelineRows`, `PipelineJobs` | the statements on a row; any caller makes any call | checked, proved |
| 2 | `PipelineWorker` | uploads, workers, retries, clock over the same statements; implements `PipelineJobs` and `WorkQueue` | checked, safety and both refinements proved |
| 3 | `WorkQueue` | what both queues promise: one worker at a time, a budget, lost work comes back | refined by 2 and 5 |
| 4 | `EmbeddingRows`, `EmbeddingJobs` | as 1 | checked, proved |
| 5 | `EmbeddingWorker` | as 2, with chunks, vectors, routes and deferral; implements `EmbeddingJobs` and `WorkQueue` | checked, safety and both refinements proved |
| 6 | `PreflightSchedules` | runners, operators and minutes | checked, safety proved |
| 7 | `Answers` | posts, searches, runs and citations against ingestion and clean-up | checked, proved |
| 8 | `KeywordIndex` | the last transaction of 2 opened up, statement by statement, against others and against refreshes | checked, safety proved |
| 9 | `Chunking`, `Fusion`, `Retrieval` | how a document is cut, and how its chunks are found, ranked, judged and packed: what 2 and 7 choose freely | checked, proved |

The order follows what everything else depends on: a wrong queue corrupts the corpus,
a wrong corpus the searches, and only then answers matter. What the plan leaves out, and
why, is section 8.

## 3. Modules and code

A table is a function from its keys to records of the columns that some statement
tests or some property is about; a row that was not inserted or was deleted is a
record with that status. One action is one transaction, since everything a transaction
reads is locked (`FOR UPDATE`) or compared again by its `UPDATE`. Between two
transactions of a process any other action may come, the process may raise an
exception (`Raise`, `Fail`) or end (`Crash`). `map` in `PROJECT.json` names the lines
of each definition.

**Time and leases.** `lease_expires_at` is one of `none`, `live` and `expired`, and the
action `LeaseExpires` turns one into the next at any moment. `PreflightSchedules` counts
minutes, because it computes with them.

**Order of the queue.** `queued_at` and `created_at` are the relation `before`, and
`ClaimNext` takes a first claimable job that nobody has locked.

**`PipelineJobs`, `EmbeddingJobs`.** Every public function of the repository that
changes the table is an action, called with any arguments at any time; `PipelineRows`
and `EmbeddingRows` hold its `SET` clauses and `WHERE` conditions. What is true here is
true of every program over these tables.

**`PipelineWorker`.** `pc` is the place in `process_next_markdown_pipeline_job`, `held`
the job it works on. The final transaction locks the job's row at its first progress
update and keeps it until it commits; it is the pair `BeginIndex`, `CommitIndex`, and
`Locked` keeps others away between them. `FailFile` and `FailJob` are the two
transactions of `_fail_claimed_job`. `chunked` says that the file's chunks and embedding
jobs are committed; nothing takes that back, since chunks are deleted only by the statement
that puts others of their document in their place. The keyword rows of the same transaction
are not part of it, because each refresh rewrites those of all documents: whether they
survive is the subject of `KeywordIndex`. `overrun` is a history variable, which no guard
reads: the jobs whose lease ran out while a worker was busy with them.

**`EmbeddingWorker`.** Chunks of all versions of all documents are one set; an ingestion
replaces any part of it. That is more than the code does: in `core/pipeline_worker.py`
chunks are replaced only when a job that indexed its document once is processed again.
How many routes are left to try matters here, their names and health do not.

**`WorkQueue`.** No rows, leases or transactions. Both worker modules map their state to
it by `QueuePlace` (waiting, working, done, failed, lost or dropped, from the status and from
who holds the job), `QueueWorker` (a holder, if there is one) and `QueueTries` (`attempts`).
`ImplementsQueue` says
`Queue!Init /\ [][overrun' = {} => Queue!Next]_(Queue!vars)`: as long as no worker
outlives its lease, each step of the program is a step of the queue or changes nothing
in it. The condition is needed: see `pipeline_worker_overlap`.

**`PreflightSchedules`.** `due` and `age` are relative to the present, which makes
the states finite without a bound on the time. Nothing in the code limits how long a schedule
may stay due, and nothing here does: `Tick` moves each due time that a `Record` may still
write exactly, and of the earlier ones, which the claim query only compares, it
keeps the order (`Passes`). So a schedule may wait for ever behind others that
become due again, and that it does not is what `DueIsRun` says. `Record` writes the claim time plus the
interval that the claim read, as the code does. `late` and `edited` are history variables.

**`Answers`.** A request makes at most one log, one run, one question and one answer,
so they bear its name. Chat posts read `MAX(sequence_no) + 1` and insert in one
transaction without a lock, under READ COMMITTED, hence two actions. The log of a search and
its results are two transactions, the run and each of its citations one each. A
chunk is a document and a version. Which chunks are found, packed or judged good
enough is chosen freely; the rules for it are in `Retrieval`. The rows of
`chat_message_generation_links` and the like are read by no step and left out.

**`KeywordIndex`.** The module where an action is less than a transaction: one SQL
statement, or one row of a `DELETE`, since rows are locked one by one. What PostgreSQL
does under READ COMMITTED is written as operators: `Visible` (what a statement sees),
`Deleters` and `Inserters` (whom it waits for), `Violated` (keys), `Deadlocked` and
`Rollback`; they are marked external. `BeginIngestion` to `CreateChunk` are
`replace_document_chunks_in_connection` with its cascade, `BeginRefresh` to `CountTerm` are
`refresh_chunk_policy_keyword_index_in_connection`, `Complete` is the verdict of the
coverage matrix. A document has one chunk, since all chunks of a document
are written and deleted together; the terms of a chunk are one row, and a row of the
statistics is the set of chunks its writer counted, from which document
frequency, corpus size and average length follow. The row order of a `DELETE` is free,
that of the inserted statistics is the order of the terms, as in the code. The worker has
locked the job's row first, so two ingestions of one document do not overlap.
The tokenizer may find no word in a chunk: `TermsOf` is then empty, the chunk is counted,
has no row among the terms, and no foreign key keeps it from being deleted (`Termed`). A
document has the same text whenever it is ingested, as its file is stored once; that
an update of the parser cuts it differently is left out.

**`Chunking`.** One step is one iteration of the loop of `chunk_document_blocks` and
`chunk_parsed_document`: cut at a heading, extend, or cut at the target and keep an overlap.
`current_units` is always a run of consecutive units, hence two numbers; a unit
is its number of tokens and whether it is a heading.

**`Fusion`.** Reciprocal rank fusion as a comparison of fractions: `1 / (rrf_k + rank)` per
list, added, multiplied out so that it is exact; then the tie-breakers of the sort key. The
code adds floating point numbers. Different sums are further apart than their rounding for
lists of hundreds of results; equal sums of different ranks may round differently, which
changes the order of such ties and none of the properties.

**`Retrieval`.** Extends both: a question is asked about the chunks just cut, each profile
is searched or fails (`SearchProfile`, `FailProfile`), the log is opened and its
results are packed one by one (`Pack`, one disjunct per reason of the code to leave one out).
Rankings, embedded chunks, thresholds reached, the reranker's answer and missing source
contexts are chosen freely. `Answers` says what may happen between these steps in the
database, `Retrieval` what they compute.

## 4. Runs

| Run | Bounds | Question and answer |
|---|---|---|
| `pipeline_jobs` | 2 jobs, 2 workers, 2 attempts, 1 unit of progress | is the table consistent under any calls? yes |
| `pipeline_worker` | 2 jobs, 2 workers, 2 attempts | the program with crashes, slow workers, retries: is what search finds reported as succeeded and nothing else, does a late worker disturb no other job, does every job end, both refinements: yes |
| `pipeline_worker_stuck` | 1 job, 2 workers | is a job whose lease expired always taken again? no, see 6 |
| `pipeline_worker_overlap` | 1 job, 2 workers | does a lease keep a second worker away? no, see 6 |
| `embedding_jobs` | 2 chunks, 1 profile, 2 workers, 2 attempts | as `pipeline_jobs`: yes |
| `embedding_worker` | the same, 2 routes, failure mode defer | success means a stored vector, only a worker that shared the job takes a success back, every job ends, both refinements: yes |
| `embedding_worker_deferred` | 1 chunk, 1 worker, 1 route | is a deferred job tried again? no, see 6 |
| `preflight_schedules` | 3 schedules, 2 runners, batches of 2, intervals up to 2, calls up to 1 minute, 3 edits; 4 due times before now told apart | one runner per schedule, due times go forward, what is due is run however long it waits: yes |
| `preflight_schedules_overlap` | 1 schedule, 2 runners, a run of up to 2 minutes | is a due time run once? no, see 6 |
| `keyword_index` | 3 transactions; 2 documents that share a term and have one each of their own, 1 document without a term | can the shared index be repaired while workers run, is a complete index exact, does every transaction end? yes |
| `retrieval` | all documents of up to 4 units of up to 4 tokens, target 3, overlap 2; one with 3 chunks is searched, 2 lists of profiles, top 2 of 3 candidates, budget 16, 2 or 3 items | is a document cut well, do two agreeing searches decide, does the budget cut off a tail? yes |
| `answers` | 2 requests, 2 sessions, 2 documents, 2 versions, clean-up of up to 2 logs | threads in order, citations anchored, answers cited: yes |

Why these bounds are enough:

- Two jobs and two workers give a worker that is late on one job while it or another
  one works on the second one, and one queue position before another.
- Two attempts are a first, a retried and a last one; the last one is where the code
  behaves differently, and with one attempt there would be no takeover at all.
- `TotalUnits = 5` in the worker is the number in the code, not a bound. One unit is
  enough for the table, which only compares.
- Three schedules with batches of two leave one behind; intervals and delays of up to two
  minutes contain each order of an interval, a run and a minute. `MaxLate` bounds no waiting
  time: with as many due times as a call can last and one for each schedule,
  there is always room for one more overdue schedule (`RoomBefore` in the proofs).
- Three transactions of `keyword_index` are one that leaves the index wrong or
  replaces what is in it, and two that meet over it; two documents with a shared term give
  rows of the statistics for which both wait, and rows of their own in each order; the third
  one is counted but can be replaced while it is. A
  deadlock needs two, one over three rows all three. With four transactions and the
  documents that have terms (1.8 million states, too long for the run) the safety properties
  hold as well; the proofs cover any number of both.
- A target of 3 with units of up to 4 tokens has units below, at and above the target, and
  an overlap of 2 tails of one and of two units, too long ones and ones that leave no room.
  Four units are two cuts with an overlap between them. The searched document has three
  chunks, two that overlap and one with a heading; `RetrievalProofs` removes these
  bounds. `rrf_k = 2` with lists of 3 is the largest
  case below the boundary of `ShortLists`, with the 60 of the code it is 61.
- Two requests are the least for which one message, log or clean-up can come between two
  transactions of another. For the properties of `Answers`, `AnswersProofs` removes the bound.

`CHECK_DEADLOCK FALSE` stands where the system may stop for good: every job
has ended, every request is answered, every transaction is over, the results are packed, or
the bound of `MaxVersions` is reached. The
states of the two large runs are not reduced by symmetry, since they check liveness.

## 5. Fairness

- Workers (`WorkerStep`): the supervisor starts one cycle of `run_foreground_workers` after
  another, which starts the workers, and provider calls and extraction end because they
  have timeouts. A worker may still crash at each step. The supervisor itself stops after
  more failed cycles than it tolerates; that an operator starts it again is part of the
  assumption.
- `LeaseExpires`: time passes.
- Cron starts its runner again and again, and provider calls of a preflight end
  (`ClaimAny` of `Cron`, `Record`).

- A transaction of `KeywordIndex` (`Step`): the database executes the statement it was
  sent as soon as nobody is waited for, looks for deadlocks and ends one of the
  transactions in it, and the client sends the next statement.

Nothing is assumed of uploads, retries, releases, operators, crashes and exceptions: they
may happen or not. All of this is weak fairness, as a worker that can go on stays able to,
except that a row may be locked for a moment, and its lock ends with that same fairness.
`EveryJobResolves` ends in a result or in `Exhausted`, a last attempt that nobody will
take up again, since that is what the code does (see 6).

## 6. Where documents and code disagree

1. `pipeline_worker_stuck`: a job whose worker disappears in its last attempt stays
   `running`: a claim demands `attempts < max_attempts`, a retry a failed or canceled job.
   `260702_NeX_PCX_SRS_v1.3.md`, line 739, says that a running job whose lease has
   expired must be claimable again; line 1872 names that as the remedy for
   jobs that run for ever. `embedding_jobs` has the same conditions, also where an operator
   releases a stale lease.
2. `pipeline_worker_overlap`: nobody calls `heartbeat_pipeline_job`, so a worker that takes
   longer than its lease shares the job with a second one. Line 200 of the same document
   describes the lease as what prevents that, line 355 counts the heartbeat
   among the duties of a worker.
3. `embedding_worker_deferred`: a deferral keeps the attempt that the claim added, so a job
   deferred in its last attempt is never claimed again, while
   `docs/provider_operations_playbook.md`, lines 138-141, recommends the mode to keep
   jobs in the queue until the providers are warm.
4. `preflight_schedules_overlap`: a run is recorded with the time of its claim. If it took
   longer than the interval and another runner has claimed the schedule since, that
   moves `next_run_at` back, and the same due time runs twice; lines 40-43 of the
   playbook exclude it.

## 7. Proofs

All theorems hold for every set of jobs, workers, chunks, requests, runners and so on, and
for every `MaxAttempts`, from the assumptions named at the constants: bounds are
natural numbers, the values for "nobody" and NULL are different from the others, the
schedules are a finite set (a claim takes the first of those that are due), a chunk
policy is one that `validate_chunk_policy` accepts, and a budget has room for one
truncated text.

- Both `PipelineJobsProofs` and `PipelineWorkerProofs` start with lemmas about the
  statements of `PipelineRows`, such as that a claimable row has an
  attempt left and that each statement keeps a row `Sound` (type, budget, lease
  columns, outcome columns). A claim passes because the `WHERE` leaves an attempt,
  a retry because it tests the budget: neither works alone, which is why soundness is one invariant.
- `PipelineJobsProofs`, `EmbeddingJobsProofs`: each action writes one row with one of the
  statements, so the lemmas give the invariant and `NoStolenLease`. That the outcome columns
  and `finished_at` tell the outcome (`OutcomeColumnsHold`, `FinishColumnHolds`) is proved here
  only.
- The same modules say what a claim finds (`ClaimFindsTheFirstHolds`,
  `ClaimFindsAnOldestHolds`), for any rows that other transactions lock. In the pipeline it is
  exactly one job: `QueueOrdered` says that the inserted rows are finitely many and
  `before` is a strict total order of them, which a requeued job keeps because it goes behind
  all others. Embedding jobs of one transaction tie, so `OrderInv` keeps a partial
  order: new jobs come behind all that exist, none of which is new. A finite part of the queue
  then has a first element (`HasFirst`). Both are stated here only; TLC has checked
  them, with the invariants, on three jobs.
- `PipelineWorkerProofs`: `Inv` adds to that where each worker is and that the row it holds
  exists and has the total it set, without which its progress updates would not be
  calls the repository allows; with it follows
  that every step is a step of `PipelineJobs` (`RepositoryImplemented`). `TimelyInv` is about
  jobs outside `overrun`: the holder is the owner of a running row, which
  holds because another claim needs an expired lease and an expired lease puts the job
  into `overrun`. `HolderIsOwnerHolds` and `OutcomesAgreeHold` follow, and
  `QueueImplemented`: in time a job has one holder, so the abstract queue can call it
  the item's worker, and each action is `Submit`, `Assign`, `Finish`, `Resubmit` or nothing.
  `Counted` says that the holders of a job are finitely many and no more than
  its attempts: a claim adds at most one to both, and nothing takes an attempt back.
  `CorpusIsReportedHolds` is about late workers too, and needs both: `Reported` says that a
  job in the corpus is reported succeeded while it is in time, because its
  workers own a running row and no claim or retry touches a succeeded one, and also while
  it was claimed only once, because the worker that committed it was then
  its only one (`FirstHolder`), late or not. What is left is a job that was claimed again after its
  lease ran out under a worker. There the two do come apart: TLC has a worker commit and
  the one it overtook fail the job afterwards, so that search finds the file of a failed job.
- `EmbeddingWorkerProofs`: the same theorems, and `SucceededIsFinal`: `Quiet` says
  that a job which was claimed once and has succeeded has no worker any more, so only a worker
  of a job that was claimed twice and overran (`Owned`) can take a success back, which a
  late deferral and a late failure do. `Inv` is made of the
  places of the workers, sound rows, `ChunksGo` (a deleted job has no chunk any more) and
  `SucceededHasVector`, which an ingestion keeps because it deletes a job together with its
  chunk and vector. `Owned` leaves out jobs that were deleted under their worker,
  who finds that out with its next statement. `Fresh` (nothing is counted for a row
  that was not inserted) is what the initial state of the queue needs.
- `PreflightSchedulesProofs`: `HeldAhead` says that a schedule which a runner holds in
  time, and nobody edited, is due exactly when the interval the runner read is over: `due`
  is the interval minus the age of the call. Hence it is not due, nobody else claims it
  (`OneRunnerPerScheduleHolds`), and recording the run writes the due time that is there
  (`NeverMovedBack`). `TypeCorrect` needs that `Tick` always has room for one more
  overdue schedule (`RoomBefore`: `MaxLate` is at least `MaxAge` plus the number of
  schedules, and fewer due times than that are taken), so that no guard has to stop the
  time. `TimeKeepsOrderHolds` says that the time passed like this is the real one as far as
  the code looks at it: exact in reach of a run, and in order before.
- `AnswersProofs`: `Threads` adds to `ThreadsInOrder` what a request knows from its
  last read and stays true, as messages are never deleted: all numbers below its own
  are taken, its parent and its question stand before it. `Anchors` adds to
  `CitationsAnchored` that a request makes its log once and its run only after it, so
  that a deleted log never comes back, and that a request is past `cite` only with everything
  cited. All four properties of the run follow.
- `KeywordIndexProofs`: `UndisturbedRefreshIsExact`, for any number of transactions,
  documents and terms. `Apart` says what makes the transactions independent: a step other
  than a commit adds and removes rows and deletions of its own transaction only, so what
  another one sees (`Visible`) stays (`ApartVisible`). Hence `Alone`, which follows a
  transaction that nobody else's commit disturbed from the chunks it read through each
  `DELETE` to the rows it inserts, has to be kept by its own statements only. `Owned` is what
  makes that inductive: its `DELETE`s precede its insertions, so it never deletes
  a row of its own. What it sees at its commit is what there is afterwards
  (`CommitPublishes`). `Deleting` tells which table a `DELETE` is about.
- `CompleteIsExactHolds`, the other safety property of `KeywordIndex`, needs two more invariants,
  about transactions that do overlap. The coverage matrix compares numbers: that a corpus
  of as many chunks as there are says the same as these chunks has two parts.
  Of chunks with terms, the counted ones are all still there (`StatisticsInv`: committed
  statistics may miss some, they never count one that is gone). `CountInv` keeps that by three
  things together. The term rows a transaction inserts hold
  their chunks against deletion until it ends (`Locks`, with `Reads`), so nobody
  deletes a chunk while statistics that count it are inserted. Who deletes it later
  deletes the statistics in the same transaction, by a statement that sees those committed
  by then, of another transaction all or none (`Sweeps`), so none that counts the
  chunk survives. And a term that has statistics already violates the key of another
  row, so those inserted take the place of those deleted (`Counts`). `Durable`
  says that only committed rows are deleted, and only open or committed transactions own any.
- A chunk without terms has no row that holds it, and may be replaced while it is counted.
  `DocumentsInv` therefore counts documents: each has one committed chunk at most
  (`OneEach`), and one that had a chunk has one from then on, as an ingestion deletes and
  creates in one transaction. Hence the statistics count no document that has
  no chunk (`Covers`), so that as many counted as live chunks are chunks of the same documents
  (`SameDocuments`, by the injection from one set into the other). What is proved is that
  each term of a complete document has one row of statistics, whose numbers are those
  a refresh would write now; the chunk behind one of them may be the predecessor of the
  one there is, if neither has a term.
- `RetrievalProofs`: `ChunksInv` adds to the two properties of the chunks what the units
  not cut yet satisfy: they go on where the last chunk ended (`Joined`) and may be a
  chunk themselves (`Open`). An overlap cannot repeat its chunk because it is kept only
  if the next unit fits behind it, and the chunk was cut because it did not. `PackInv` bounds
  `used` by what is included and says that once the budget has left a text out, nothing
  has been added since and no room is left. `AgreementComesFirst` and
  `BeforeIsStrictOrder` are about `Fusion` alone: for any ranks up to `CandidateTopK`, two of
  them outweigh one if `CandidateTopK < RrfK + 2`, and the sort key leaves no ties.
- From there to `AgreementIsAnswerableHolds` and `TypeCorrect`: `InOrderSorts` says that sorting
  a finite set by a strict total order gives a list of all its elements in this
  order, since the number of elements before an element is an injection of the set into
  as many numbers, and hence takes each of them. `FusedSorts` applies it to the
  fused candidates, `SortedType` to the results of a log. The latter need `Once`: a
  profile is searched once, because a request names no profile twice, so no two of its
  results have the same rank; and a profile with results has not failed. `FusedTogether`
  says that the results of the hybrid profile are all there or none. So the first of them
  is in the log when the verdict is made, and it is a chunk both searches have found.

The strengthened invariants were checked by TLC on the instances of section 4 first.

Only model-checked are the liveness properties (`EveryJobResolves`, `DueIsRun`,
`EveryTransactionEnds`): fairness and `ENABLED` are beyond the prover.

No module that theorems reach declares a RECURSIVE operator.

`AgreementIsAnswerable` is conditional on `ShortLists`, and the condition matters: with the
`rrf_k` of 60 and four candidates per result asked for, it holds up to a `top_k` of 15. With
longer lists a chunk at the end of both can fall behind one that a single search has
found first, and then a weak first result withholds the context although both
searches agree on a later one. No document says which of the two is meant, so this is no finding.

## 8. Not modelled

- Extraction, embedding, reranking, generation and their HTTP clients: they compute
  a value or fail, and both are chosen freely where a state change depends on it.
- Scores and metrics, texts, prompts, counters that are only displayed, event logs, link
  rows, exports, dashboards, metric and evidence snapshots, templates and translations.
- Sessions' titles, feedback, notes, golden questions, provider configurations, routes and
  settings: single updates of one row, or a transaction no other interferes with.
- Evaluation runs are one transaction each; what they compute are means over real numbers.
  Search experiments write rows that nobody else touches; one whose request is
  interrupted keeps the status `running`.
- Permissions: one SQL condition per search, without a state of its own.
- Readiness of provider routes: `EmbeddingWorker` allows any, at any moment.
- Supervisor, launch and stop: processes and signals of the operating system. To the
  queues a signal is a `Crash`, a cycle that is not started a worker that takes no step; the
  drain check is a read that keeps nobody from claiming afterwards.
- The other locks of the last transaction of an ingestion. `KeywordIndex` has those on
  chunks, terms and statistics; the first transaction of a worker locks file then job, the
  last one job then file, which can be a deadlock of two workers on one job after an
  overrun. PostgreSQL ends it with an error, a `Raise` in `PipelineWorker`.
- A `COMMIT` that takes effect although the worker is told of an error: the connection is
  lost between the two. `process_next_markdown_pipeline_job` then calls
  `_fail_claimed_job` for a job that has succeeded. `CommitIndex` and `Store` either commit
  and return or do not happen (`Raise`).

Hazards without a property in `PROJECT.json` say why none covers them.
