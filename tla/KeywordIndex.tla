----------------------------- MODULE KeywordIndex -----------------------------
(***************************************************************************)
(* The BM25 keyword index of one chunk policy and one tokenizer            *)
(* (app/core/bm25_keyword_index.py) under concurrent transactions: the     *)
(* last transaction of an ingestion (app/core/pipeline_worker.py), which   *)
(* replaces the chunks of its document (app/core/chunks.py) and rebuilds   *)
(* the index of the whole policy, and the refresh an operator asks for     *)
(* (app/core/bm25_index_refresh.py), which only rebuilds it.               *)
(*                                                                         *)
(* PipelineWorker has the last transaction of an ingestion as one commit;  *)
(* here it is opened up.  An action is one SQL statement, or the deletion  *)
(* of one of the rows a statement deletes, under READ COMMITTED:           *)
(*   - a statement sees the rows committed when it starts, and its own;    *)
(*   - a row deleted by an open transaction is waited for, and skipped if  *)
(*     that transaction commits;                                           *)
(*   - an inserted key that an open transaction inserted too is waited     *)
(*     for, and is a unique violation if that transaction commits;         *)
(*   - inserting the terms of a chunk locks the chunk against deletion     *)
(*     (foreign key);                                                      *)
(*   - transactions that wait for each other are a deadlock, of which the  *)
(*     database aborts one.                                                *)
(*                                                                         *)
(* A document has one chunk, and the same text whenever it is ingested.    *)
(* The rows of chunk_keyword_terms of a chunk are written and deleted      *)
(* together and are one row here; a chunk without terms has none.  What a  *)
(* row of chunk_keyword_statistics says (document frequency, number of     *)
(* chunks, average length) follows from the chunks its writer read, so the *)
(* row holds these.                                                        *)
(***************************************************************************)
EXTENDS Naturals, FiniteSets

CONSTANTS Docs,      \* documents
          Terms,     \* terms, numbers because they are inserted in sorted order
          TermsOf,   \* [Docs -> SUBSET Terms]: the terms of a document's text, none
                     \* if the tokenizer finds no word in it
          MaxTx,     \* bound on the number of transactions
          NoDoc      \* document of a refresh

ASSUME TermsAssumption ==
  /\ Terms \subseteq Nat
  /\ TermsOf \in [Docs -> SUBSET Terms]
  /\ NoDoc \notin Docs

Txs == 1 .. MaxTx

Chunk   == [doc : Docs, by : Txs]
TermRow == [chunk : Chunk, by : Txs]
StatRow == [term : Terms, counts : SUBSET Chunk, by : Txs]
Row     == Chunk \union TermRow \union StatRow

VARIABLES
  chunks,     \* rows of chunks, uncommitted ones included
  termRows,   \* rows of chunk_keyword_terms
  statRows,   \* rows of chunk_keyword_statistics
  deleted,    \* pairs <<row, t>>: the open transaction t deleted the row
  status,     \* of each transaction
  doc,        \* the document it ingests, NoDoc for a refresh
  pc,         \* the statement it is about to execute
  todo,       \* rows its DELETE statement still has to delete
  read,       \* the chunks its refresh read
  blocked,    \* {c}: its INSERT of the terms of c met a row of an open transaction
  disturbed   \* history: transactions during which another one committed

tables == <<chunks, termRows, statRows, deleted>>
vars == <<chunks, termRows, statRows, deleted,
          status, doc, pc, todo, read, blocked, disturbed>>

Statements == {"begin", "replace", "cascade", "read", "delete_terms",
               "terms", "stats", "fill"}

TypeOK ==
  /\ chunks \subseteq Chunk
  /\ termRows \subseteq TermRow
  /\ statRows \subseteq StatRow
  /\ deleted \subseteq Row \X Txs
  /\ status \in [Txs -> {"new", "open", "committed", "aborted"}]
  /\ doc \in [Txs -> Docs \union {NoDoc}]
  /\ pc \in [Txs -> Statements]
  /\ todo \in [Txs -> SUBSET Row]
  /\ read \in [Txs -> SUBSET Chunk]
  /\ blocked \in [Txs -> SUBSET Chunk]
  /\ disturbed \subseteq Txs

Init ==
  /\ chunks = {} /\ termRows = {} /\ statRows = {} /\ deleted = {}
  /\ status = [t \in Txs |-> "new"]
  /\ doc = [t \in Txs |-> NoDoc]
  /\ pc = [t \in Txs |-> "begin"]
  /\ todo = [t \in Txs |-> {}]
  /\ read = [t \in Txs |-> {}]
  /\ blocked = [t \in Txs |-> {}]
  /\ disturbed = {}

-------------------------------------------------------------------------------
(* PostgreSQL, as this code uses it *)

Open(t) == status[t] = "open"

\* The rows a statement of t sees.  Rows that a committed transaction deleted are
\* no longer in the tables, those of an aborted one never were.
Visible(t, rows) ==
  {r \in rows : (r.by = t \/ status[r.by] = "committed") /\ <<r, t>> \notin deleted}

Committed(rows) == {r \in rows : status[r.by] = "committed"}

\* Other open transactions that deleted row r, and those that inserted one of rows.
Deleters(t, r)     == {u \in Txs \ {t} : Open(u) /\ <<r, u>> \in deleted}
Inserters(t, rows) == {u \in Txs \ {t} : Open(u) /\ \E r \in rows : r.by = u}

TermsRows(c) == {r \in termRows : r.chunk = c}
StatsRows(x) == {r \in statRows : r.term = x}

\* Whom t waits for to delete row r.  The terms of a chunk lock the chunk.
ToDelete(t, r) ==
  Deleters(t, r) \union (IF r \in Chunk THEN Inserters(t, TermsRows(r)) ELSE {})

\* Whom t waits for to insert the terms of chunk c, and the statistics of term x.
ToFill(t, c) ==
  Deleters(t, c) \union Inserters(t, TermsRows(c))
    \union UNION {Deleters(t, r) : r \in Visible(t, TermsRows(c))}
ToCount(t, x) ==
  Inserters(t, StatsRows(x)) \union UNION {Deleters(t, r) : r \in StatsRows(x)}

\* What the refresh of t still has to write.  Chunks without terms are passed over,
\* and only counted; the statistics are inserted in the order of their terms.
Termed(S) == {c \in S : TermsOf[c.doc] # {}}
Unfilled(t) == {c \in Termed(read[t]) : ~\E r \in TermsRows(c) : r.by = t}
Uncounted(t) ==
  {x \in UNION {TermsOf[c.doc] : c \in read[t]} : ~\E r \in StatsRows(x) : r.by = t}
NextTerm(t) == {x \in Uncounted(t) : \A y \in Uncounted(t) : x <= y}

\* The transactions that keep t from going on.
WaitsFor(t) ==
  LET waits == IF pc[t] # "fill" THEN {ToDelete(t, r) : r \in todo[t]}
               ELSE IF Unfilled(t) # {} THEN {ToFill(t, c) : c \in Unfilled(t)}
               ELSE {ToCount(t, x) : x \in NextTerm(t)}
  IN  IF {} \in waits THEN {} ELSE UNION waits

Deadlocked(t) ==
  \E S \in SUBSET Txs : t \in S /\ \A u \in S : Open(u) /\ WaitsFor(u) \intersect S # {}

\* The insertion t is about to make violates a key: the chunk is gone, or a row with
\* the key was committed after the DELETE that should have removed it had started.
Violated(t) ==
  /\ pc[t] = "fill"
  /\ \/ \E c \in Unfilled(t) :
          \/ c \notin chunks
          \/ c \in blocked[t] /\ Inserters(t, TermsRows(c)) = {} /\ Visible(t, TermsRows(c)) # {}
     \/ /\ Unfilled(t) = {}
        /\ \E x \in NextTerm(t) : ToCount(t, x) = {} /\ Visible(t, StatsRows(x)) # {}

\* Rows of others stay, those of t vanish, and so do its deletions.
Rollback(t) ==
  /\ chunks' = {r \in chunks : r.by # t}
  /\ termRows' = {r \in termRows : r.by # t}
  /\ statRows' = {r \in statRows : r.by # t}
  /\ deleted' = {d \in deleted : d[2] # t}
  /\ status' = [status EXCEPT ![t] = "aborted"]
  /\ UNCHANGED <<disturbed>>

Close(t) ==
  /\ doc' = [doc EXCEPT ![t] = NoDoc]
  /\ pc' = [pc EXCEPT ![t] = "begin"]
  /\ todo' = [todo EXCEPT ![t] = {}]
  /\ read' = [read EXCEPT ![t] = {}]
  /\ blocked' = [blocked EXCEPT ![t] = {}]

-------------------------------------------------------------------------------
(* Helpers of the transactions *)

At(t, place) == Open(t) /\ pc[t] = place
Goto(t, place) == pc' = [pc EXCEPT ![t] = place]

\* Transactions open in the order of their numbers, which only names them.  Two
\* ingestions of one document do not overlap: the worker has locked the job's row.
StartTransaction(t, d) ==
  /\ status[t] = "new"
  /\ \A u \in Txs : u < t => status[u] # "new"
  /\ d # NoDoc => \A u \in Txs : Open(u) => doc[u] # d
  /\ status' = [status EXCEPT ![t] = "open"]
  /\ doc' = [doc EXCEPT ![t] = d]

\* A DELETE statement starts; rows is what it sees.
StartDelete(t, rows, place) ==
  /\ todo' = [todo EXCEPT ![t] = rows]
  /\ Goto(t, place)

\* It deletes one of its rows, or skips one that is no longer there.
DeleteOne(t) ==
  \E r \in todo[t] :
    /\ ToDelete(t, r) = {}
    /\ deleted' = IF r \in chunks \union termRows \union statRows
                  THEN deleted \union {<<r, t>>} ELSE deleted
    /\ todo' = [todo EXCEPT ![t] = @ \ {r}]

-------------------------------------------------------------------------------
(* The ingestion of a document *)

\* replace_document_chunks_in_connection: DELETE FROM chunks starts.
BeginIngestion(t, d) ==
  /\ StartTransaction(t, d)
  /\ StartDelete(t, {c \in Visible(t, chunks) : c.doc = d}, "replace")
  /\ UNCHANGED <<tables, read, blocked, disturbed>>

\* The chunk is deleted; the deletion of its terms (ON DELETE CASCADE) is a
\* statement of its own.
DeleteChunk(t) ==
  /\ At(t, "replace")
  /\ DeleteOne(t)
  /\ UNCHANGED <<chunks, termRows, statRows, status, doc, pc, read, blocked, disturbed>>

Cascade(t) ==
  /\ At(t, "replace") /\ todo[t] = {}
  /\ StartDelete(t, {r \in Visible(t, termRows) : <<r.chunk, t>> \in deleted}, "cascade")
  /\ UNCHANGED <<tables, status, doc, read, blocked, disturbed>>

DeleteCascaded(t) ==
  /\ At(t, "cascade")
  /\ DeleteOne(t)
  /\ UNCHANGED <<chunks, termRows, statRows, status, doc, pc, read, blocked, disturbed>>

\* Mutant: the chunk is created without its document.
CreateChunk_Detached(t) ==
  /\ At(t, "cascade") /\ todo[t] = {}
  /\ chunks' = chunks \union {[doc |-> NoDoc, by |-> t]}
  /\ Goto(t, "read")
  /\ UNCHANGED <<termRows, statRows, deleted, status, doc, todo, read, blocked, disturbed>>

CreateChunk(t) ==
  /\ At(t, "cascade") /\ todo[t] = {}
  /\ chunks' = chunks \union {[doc |-> doc[t], by |-> t]}
  /\ Goto(t, "read")
  /\ UNCHANGED <<termRows, statRows, deleted, status, doc, todo, read, blocked, disturbed>>

-------------------------------------------------------------------------------
(* refresh_chunk_policy_keyword_index_in_connection, by an ingestion or alone *)

BeginRefresh(t) ==
  /\ StartTransaction(t, NoDoc)
  /\ Goto(t, "read")
  /\ UNCHANGED <<tables, todo, read, blocked, disturbed>>

\* Mutant: the chunks are read over another connection.
ReadChunks_Elsewhere(t) ==
  /\ At(t, "read")
  /\ read' = [read EXCEPT ![t] = Committed(chunks)]
  /\ Goto(t, "delete_terms")
  /\ UNCHANGED <<tables, status, doc, todo, blocked, disturbed>>

ReadChunks(t) ==
  /\ At(t, "read")
  /\ read' = [read EXCEPT ![t] = Visible(t, chunks)]
  /\ Goto(t, "delete_terms")
  /\ UNCHANGED <<tables, status, doc, todo, blocked, disturbed>>

\* DELETE FROM chunk_keyword_terms starts.  It is a new statement: chunks that were
\* committed since ReadChunks have rows here that no one will write again.
StartDeleteTerms(t) ==
  /\ At(t, "delete_terms")
  /\ StartDelete(t, Visible(t, termRows), "terms")
  /\ UNCHANGED <<tables, status, doc, read, blocked, disturbed>>

DeleteTerms(t) ==
  /\ At(t, "terms")
  /\ DeleteOne(t)
  /\ UNCHANGED <<chunks, termRows, statRows, status, doc, pc, read, blocked, disturbed>>

\* DELETE FROM chunk_keyword_statistics starts.
StartDeleteStatistics(t) ==
  /\ At(t, "terms") /\ todo[t] = {}
  /\ StartDelete(t, Visible(t, statRows), "stats")
  /\ UNCHANGED <<tables, status, doc, read, blocked, disturbed>>

DeleteStatistics(t) ==
  /\ At(t, "stats")
  /\ DeleteOne(t)
  /\ UNCHANGED <<chunks, termRows, statRows, status, doc, pc, read, blocked, disturbed>>

StartFill(t) ==
  /\ At(t, "stats") /\ todo[t] = {}
  /\ Goto(t, "fill")
  /\ UNCHANGED <<tables, status, doc, todo, read, blocked, disturbed>>

\* replace_chunk_keyword_terms_in_connection deletes what it sees of the chunk's
\* terms and inserts them; the INSERT may meet rows the DELETE could not see.
BlockOnTerms(t, c) ==
  /\ At(t, "fill") /\ c \in Unfilled(t) \ blocked[t]
  /\ c \in chunks /\ Deleters(t, c) = {}
  /\ Inserters(t, TermsRows(c)) # {}
  /\ blocked' = [blocked EXCEPT ![t] = {c}]
  /\ UNCHANGED <<tables, status, doc, pc, todo, read, disturbed>>

FillChunk(t, c) ==
  /\ At(t, "fill") /\ c \in Unfilled(t)
  /\ blocked[t] \subseteq {c}
  /\ ToFill(t, c) = {} /\ ~Violated(t)
  /\ deleted' = deleted \union {<<r, t>> : r \in Visible(t, TermsRows(c))}
  /\ termRows' = termRows \union {[chunk |-> c, by |-> t]}
  /\ blocked' = [blocked EXCEPT ![t] = {}]
  /\ UNCHANGED <<chunks, statRows, status, doc, pc, todo, read, disturbed>>

\* INSERT INTO chunk_keyword_statistics, one term after the other.
CountTerm(t) ==
  /\ At(t, "fill") /\ Unfilled(t) = {} /\ ~Violated(t)
  /\ \E x \in NextTerm(t) :
       /\ ToCount(t, x) = {}
       /\ statRows' = statRows \union {[term |-> x, counts |-> read[t], by |-> t]}
  /\ UNCHANGED <<chunks, termRows, deleted, status, doc, pc, todo, read, blocked, disturbed>>

-------------------------------------------------------------------------------
(* The end of a transaction *)

Gone(t) == {d[1] : d \in {e \in deleted : e[2] = t}}

\* Mutant: an index without chunks is left without a commit.
Commit_NotEmpty(t) ==
  /\ At(t, "fill") /\ Unfilled(t) = {} /\ Uncounted(t) = {} /\ read[t] # {}
  /\ chunks' = chunks \ Gone(t)
  /\ termRows' = termRows \ Gone(t)
  /\ statRows' = statRows \ Gone(t)
  /\ deleted' = {d \in deleted : d[2] # t}
  /\ status' = [status EXCEPT ![t] = "committed"]
  /\ disturbed' = disturbed \union {u \in Txs \ {t} : Open(u)}
  /\ Close(t)

Commit(t) ==
  /\ At(t, "fill") /\ Unfilled(t) = {} /\ Uncounted(t) = {}
  /\ chunks' = chunks \ Gone(t)
  /\ termRows' = termRows \ Gone(t)
  /\ statRows' = statRows \ Gone(t)
  /\ deleted' = {d \in deleted : d[2] # t}
  /\ status' = [status EXCEPT ![t] = "committed"]
  /\ disturbed' = disturbed \union {u \in Txs \ {t} : Open(u)}
  /\ Close(t)

\* A violated key, a missing chunk or a deadlock: the database ends the
\* transaction with an error.  An ingestion fails its job, a refresh reports the
\* policy as failed.
AbortByDatabase(t) ==
  /\ Open(t) /\ (Violated(t) \/ Deadlocked(t))
  /\ Rollback(t)
  /\ Close(t)

\* Any other error, or the end of the process.
AbortByError(t) ==
  /\ Open(t)
  /\ Rollback(t)
  /\ Close(t)

Step(t) ==
  \/ DeleteChunk(t) \/ Cascade(t) \/ DeleteCascaded(t) \/ CreateChunk(t)
  \/ ReadChunks(t) \/ StartDeleteTerms(t) \/ DeleteTerms(t)
  \/ StartDeleteStatistics(t) \/ DeleteStatistics(t) \/ StartFill(t)
  \/ (\E c \in read[t] : BlockOnTerms(t, c) \/ FillChunk(t, c))
  \/ CountTerm(t) \/ Commit(t) \/ AbortByDatabase(t)

Next ==
  \E t \in Txs :
    \/ (\E d \in Docs : BeginIngestion(t, d)) \/ BeginRefresh(t)
    \/ Step(t) \/ AbortByError(t)

Spec == Init /\ [][Next]_vars

\* The database executes what it was sent and looks for deadlocks.
FairSpec == Spec /\ \A t \in Txs : WF_vars(Step(t))

-------------------------------------------------------------------------------
(* Properties *)

LiveChunks == Committed(chunks)
IndexedChunks == {r.chunk : r \in Committed(termRows)}
Statistics(x) == Committed(StatsRows(x))

Exact ==
  /\ IndexedChunks = Termed(LiveChunks)
  /\ {<<r.term, r.counts>> : r \in Committed(statRows)} =
       {<<x, LiveChunks>> : x \in UNION {TermsOf[c.doc] : c \in LiveChunks}}

\* A refresh during which no other transaction commits leaves the index exact,
\* whatever the ones before it left: the index of a policy can be repaired while
\* the workers run.  (One that others overtake does not: chunks committed after it
\* read the chunks lose their terms to its DELETE.)
UndisturbedIsExact ==
  [][\A t \in Txs \ disturbed :
       status[t] = "open" /\ status'[t] = "committed" => Exact']_vars

\* The coverage matrix calls document d complete, which is what an operator looks
\* at to decide on a refresh (bm25_index_coverage.py).
CorpusCounts == {Cardinality(r.counts) : r \in Committed(statRows)}

\* Mutant: the number of chunks is not compared.
Complete_AnyCorpus(d) ==
  LET ofDocument == {c \in LiveChunks : c.doc = d} IN
  /\ ofDocument # {} /\ CorpusCounts # {}
  /\ ofDocument \subseteq IndexedChunks

Complete(d) ==
  LET ofDocument == {c \in LiveChunks : c.doc = d} IN
  /\ ofDocument # {} /\ CorpusCounts # {}
  /\ \E n \in CorpusCounts : n = Cardinality(LiveChunks) /\ \A m \in CorpusCounts : m <= n
  /\ ofDocument \subseteq IndexedChunks

\* The same documents, and the same chunks as far as they have terms: what the rows of
\* the statistics say of S and of T is the same.
Documents(S) == {c.doc : c \in S}
SameCorpus(S, T) == Documents(S) = Documents(T) /\ Termed(S) = Termed(T)

\* The matrix compares numbers of chunks only, and is right all the same: each term of
\* a complete document has one row of statistics, and it says what a refresh would
\* say now.  It may have counted a chunk that is gone, but only one without terms whose
\* document has another one now.
CompleteIsExact ==
  \A d \in Docs : Complete(d) =>
    \A x \in TermsOf[d] :
      \E r \in Statistics(x) : Statistics(x) = {r} /\ SameCorpus(r.counts, LiveChunks)

\* Every transaction comes to an end: whoever waits for rows of others gets them, or
\* is in a deadlock that the database resolves.
EveryTransactionEnds ==
  \A t \in Txs : Open(t) ~> ~Open(t)

===============================================================================
