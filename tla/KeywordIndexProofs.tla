--------------------------- MODULE KeywordIndexProofs ---------------------------
(***************************************************************************)
(* Theorems about KeywordIndex, for any number of transactions, documents  *)
(* and terms: what a transaction writes while no other one commits, and    *)
(* what the rows of the statistics count however the transactions overlap. *)
(***************************************************************************)
EXTENDS KeywordIndex, FunctionTheorems, FiniteSetTheorems, TLAPS

-------------------------------------------------------------------------------
(* The inductive invariant *)

\* What an open transaction that is alone to commit sees, statement by statement.
Alone(t) ==
  /\ pc[t] \in {"delete_terms", "terms", "stats", "fill"} => read[t] = Visible(t, chunks)
  /\ pc[t] = "terms" => Visible(t, termRows) \subseteq todo[t]
  /\ pc[t] = "stats" => /\ Visible(t, termRows) = {}
                        /\ Visible(t, statRows) \subseteq todo[t]
  /\ pc[t] = "fill" =>
       /\ \A r \in Visible(t, termRows) : r.by = t /\ r.chunk \in Termed(read[t])
       /\ \A r \in Visible(t, statRows) :
            /\ r.by = t /\ r.counts = read[t]
            /\ r.term \in UNION {TermsOf[c.doc] : c \in read[t]}

\* The rows t writes are its own, are the last thing it writes, and are never deleted by it.
Owned(t) ==
  /\ status[t] = "new" => \A r \in chunks \union termRows \union statRows : r.by # t
  /\ Open(t) /\ pc[t] # "fill" => \A r \in termRows \union statRows : r.by # t
  /\ \A r \in todo[t] : r.by # t
  /\ \A r \in Row : <<r, t>> \in deleted => r.by # t

\* What its DELETE statement deletes.
Deleting(t) ==
  /\ pc[t] = "replace" => todo[t] \subseteq Chunk
  /\ pc[t] \in {"cascade", "terms"} => todo[t] \subseteq TermRow
  /\ pc[t] = "stats" => todo[t] \subseteq StatRow
  /\ pc[t] = "cascade" => doc[t] \in Docs
  /\ pc[t] = "replace" => doc[t] \in Docs

Good(t) == Owned(t) /\ Deleting(t) /\ (Open(t) /\ t \notin disturbed => Alone(t))

IGood == \A t \in Txs : Good(t)
IInv == TypeOK /\ IGood

-------------------------------------------------------------------------------
(* Types *)

\* The statements of a transaction that neither open nor end it.
Statement(t) ==
  \/ DeleteChunk(t) \/ Cascade(t) \/ DeleteCascaded(t) \/ CreateChunk(t)
  \/ ReadChunks(t) \/ StartDeleteTerms(t) \/ DeleteTerms(t)
  \/ StartDeleteStatistics(t) \/ DeleteStatistics(t) \/ StartFill(t)
  \/ (\E c \in read[t] : BlockOnTerms(t, c) \/ FillChunk(t, c))
  \/ CountTerm(t)

\* An end of a transaction other than its commit.
Abort(t) == AbortByDatabase(t) \/ AbortByError(t)

Begin(t) == (\E d \in Docs : BeginIngestion(t, d)) \/ BeginRefresh(t)

LEMMA NextCases ==
  ASSUME Next
  PROVE  \E t \in Txs : Begin(t) \/ Statement(t) \/ Abort(t) \/ Commit(t)
BY DEF Next, Step, Begin, Statement, Abort

\* No row belongs to two tables.
LEMMA TablesDiffer ==
  /\ \A r \in Chunk : r \notin TermRow /\ r \notin StatRow
  /\ \A r \in TermRow : r \notin StatRow
<1>1. /\ \A r \in Chunk : DOMAIN r = {"doc", "by"}
      /\ \A r \in TermRow : DOMAIN r = {"chunk", "by"}
      /\ \A r \in StatRow : DOMAIN r = {"term", "counts", "by"}
  BY DEF Chunk, TermRow, StatRow
<1>2. "doc" \notin {"chunk", "by"} /\ "doc" \notin {"term", "counts", "by"} /\ "chunk" \notin {"term", "counts", "by"}
  OBVIOUS
<1> QED
  BY <1>1, <1>2

LEMMA RowHasWriter == \A r \in Row : r.by \in Txs
BY DEF Row, Chunk, TermRow, StatRow

LEMMA DeleteOneType ==
  ASSUME TypeOK, NEW t \in Txs, DeleteOne(t)
  PROVE  /\ deleted' \subseteq Row \X Txs
         /\ todo' \in [Txs -> SUBSET Row]
<1>1. PICK r \in todo[t] :
        /\ deleted' = IF r \in chunks \union termRows \union statRows
                      THEN deleted \union {<<r, t>>} ELSE deleted
        /\ todo' = [todo EXCEPT ![t] = @ \ {r}]
  BY DEF DeleteOne
<1>2. r \in Row
  BY DEF TypeOK
<1>3. deleted' \subseteq Row \X Txs
  BY <1>1, <1>2 DEF TypeOK
<1>4. todo' \in [Txs -> SUBSET Row]
  BY <1>1 DEF TypeOK
<1> QED
  BY <1>3, <1>4

LEMMA CloseType ==
  ASSUME TypeOK, NEW t \in Txs, Close(t)
  PROVE  /\ doc' \in [Txs -> Docs \union {NoDoc}]
         /\ pc' \in [Txs -> Statements]
         /\ todo' \in [Txs -> SUBSET Row]
         /\ read' \in [Txs -> SUBSET Chunk]
         /\ blocked' \in [Txs -> SUBSET Chunk]
BY DEF TypeOK, Close, Statements

LEMMA NextType ==
  ASSUME TypeOK, \A t \in Txs : Deleting(t), [Next]_vars
  PROVE  TypeOK'
<1>1. CASE UNCHANGED vars
  BY <1>1 DEF TypeOK, vars
<1>2. SUFFICES ASSUME NEW t \in Txs, Begin(t) \/ Statement(t) \/ Abort(t) \/ Commit(t)
               PROVE  TypeOK'
  BY <1>1, NextCases
<1>3. Visible(t, chunks) \subseteq Chunk /\ Visible(t, termRows) \subseteq TermRow
      /\ Visible(t, statRows) \subseteq StatRow
  BY DEF Visible, TypeOK
<1>4. CASE Begin(t)
  <2>1. CASE \E d \in Docs : BeginIngestion(t, d)
    BY <1>3, <2>1 DEF TypeOK, BeginIngestion, StartTransaction, StartDelete, Goto, tables, Statements, Row
  <2>2. CASE BeginRefresh(t)
    BY <2>2 DEF TypeOK, BeginRefresh, StartTransaction, Goto, tables, Statements
  <2> QED
    BY <1>4, <2>1, <2>2 DEF Begin
<1>5. CASE Statement(t)
  <2>1. CASE DeleteChunk(t)
    BY <2>1, DeleteOneType DEF TypeOK, DeleteChunk
  <2>2. CASE Cascade(t)
    BY <1>3, <2>2 DEF TypeOK, Cascade, StartDelete, Goto, tables, Statements, Row
  <2>3. CASE DeleteCascaded(t)
    BY <2>3, DeleteOneType DEF TypeOK, DeleteCascaded
  <2>4. CASE CreateChunk(t)
    <3>1. doc[t] \in Docs
      BY <2>4 DEF CreateChunk, At, Deleting
    <3>2. [doc |-> doc[t], by |-> t] \in Chunk
      BY <3>1 DEF Chunk
    <3> QED
      BY <2>4, <3>2 DEF TypeOK, CreateChunk, Goto, Statements
  <2>5. CASE ReadChunks(t)
    BY <1>3, <2>5 DEF TypeOK, ReadChunks, Goto, tables, Statements
  <2>6. CASE StartDeleteTerms(t)
    BY <1>3, <2>6 DEF TypeOK, StartDeleteTerms, StartDelete, Goto, tables, Statements, Row
  <2>7. CASE DeleteTerms(t)
    BY <2>7, DeleteOneType DEF TypeOK, DeleteTerms
  <2>8. CASE StartDeleteStatistics(t)
    BY <1>3, <2>8 DEF TypeOK, StartDeleteStatistics, StartDelete, Goto, tables, Statements, Row
  <2>9. CASE DeleteStatistics(t)
    BY <2>9, DeleteOneType DEF TypeOK, DeleteStatistics
  <2>10. CASE StartFill(t)
    BY <2>10 DEF TypeOK, StartFill, Goto, tables, Statements
  <2>11. CASE \E c \in read[t] : BlockOnTerms(t, c)
    BY <2>11 DEF TypeOK, BlockOnTerms, tables
  <2>12. CASE \E c \in read[t] : FillChunk(t, c)
    <3>1. PICK c \in read[t] : FillChunk(t, c)
      BY <2>12
    <3>2. [chunk |-> c, by |-> t] \in TermRow
      BY DEF TypeOK, TermRow
    <3>3. Visible(t, TermsRows(c)) \subseteq Row
      BY DEF Visible, TermsRows, TypeOK, Row
    <3>4. deleted' \subseteq Row \X Txs
      BY <3>1, <3>3 DEF FillChunk, TypeOK
    <3> QED
      BY <3>1, <3>2, <3>4 DEF TypeOK, FillChunk
  <2>13. CASE CountTerm(t)
    <3>1. PICK x \in NextTerm(t) : statRows' = statRows \union {[term |-> x, counts |-> read[t], by |-> t]}
      BY <2>13 DEF CountTerm
    <3>2. x \in Terms
      BY TermsAssumption, <3>1 DEF NextTerm, Uncounted, TypeOK, Chunk
    <3>3. [term |-> x, counts |-> read[t], by |-> t] \in StatRow
      BY <3>2 DEF TypeOK, StatRow
    <3> QED
      BY <2>13, <3>1, <3>3 DEF TypeOK, CountTerm
  <2> QED
    BY <1>5, <2>1, <2>2, <2>3, <2>4, <2>5, <2>6, <2>7, <2>8, <2>9, <2>10, <2>11, <2>12, <2>13
    DEF Statement
<1>6. CASE Abort(t)
  <2>1. Rollback(t) /\ Close(t)
    BY <1>6 DEF Abort, AbortByDatabase, AbortByError
  <2> QED
    BY <2>1, CloseType DEF TypeOK, Rollback
<1>7. CASE Commit(t)
  <2>1. Close(t)
    BY <1>7 DEF Commit
  <2> QED
    BY <1>7, <2>1, CloseType DEF TypeOK, Commit
<1> QED
  BY <1>2, <1>4, <1>5, <1>6, <1>7

-------------------------------------------------------------------------------
(* What the steps of one transaction leave to the others *)

\* Transaction u adds and removes rows and deletions of its own only, and does not commit.
Apart(u) ==
  /\ \A r \in Row : r.by # u => /\ r \in chunks' <=> r \in chunks
                                /\ r \in termRows' <=> r \in termRows
                                /\ r \in statRows' <=> r \in statRows
  /\ \A r \in Row : \A t \in Txs \ {u} : <<r, t>> \in deleted' <=> <<r, t>> \in deleted
  /\ \A t \in Txs \ {u} : /\ status'[t] = status[t] /\ doc'[t] = doc[t] /\ pc'[t] = pc[t]
                          /\ todo'[t] = todo[t] /\ read'[t] = read[t]
  /\ status[u] # "committed" /\ status'[u] # "committed"
  /\ disturbed' = disturbed

LEMMA DeleteOneApart ==
  ASSUME TypeOK, NEW u \in Txs, DeleteOne(u)
  PROVE  /\ \A r \in Row : \A t \in Txs \ {u} : <<r, t>> \in deleted' <=> <<r, t>> \in deleted
         /\ \A t \in Txs \ {u} : todo'[t] = todo[t]
<1>1. PICK q \in todo[u] :
        /\ deleted' = IF q \in chunks \union termRows \union statRows
                      THEN deleted \union {<<q, u>>} ELSE deleted
        /\ todo' = [todo EXCEPT ![u] = @ \ {q}]
  BY DEF DeleteOne
<1>2. \A r \in Row : \A t \in Txs \ {u} : <<r, t>> # <<q, u>>
  OBVIOUS
<1>3. \A r \in Row : \A t \in Txs \ {u} : <<r, t>> \in deleted' <=> <<r, t>> \in deleted
  BY <1>1, <1>2
<1>4. \A t \in Txs \ {u} : todo'[t] = todo[t]
  BY <1>1 DEF TypeOK
<1> QED
  BY <1>3, <1>4

LEMMA BeginApart ==
  ASSUME TypeOK, NEW u \in Txs, Begin(u)
  PROVE  Apart(u)
<1>1. CASE \E d \in Docs : BeginIngestion(u, d)
  BY <1>1 DEF TypeOK, BeginIngestion, StartTransaction, StartDelete, Goto, tables, Apart
<1>2. CASE BeginRefresh(u)
  BY <1>2 DEF TypeOK, BeginRefresh, StartTransaction, Goto, tables, Apart
<1> QED
  BY <1>1, <1>2 DEF Begin

LEMMA StatementApart ==
  ASSUME TypeOK, NEW u \in Txs, Statement(u)
  PROVE  Apart(u) /\ Open(u) /\ status' = status /\ doc' = doc
<1>1. CASE DeleteChunk(u)
  BY <1>1, DeleteOneApart DEF TypeOK, DeleteChunk, At, Open, Apart
<1>2. CASE Cascade(u)
  BY <1>2 DEF TypeOK, Cascade, StartDelete, Goto, tables, At, Open, Apart
<1>3. CASE DeleteCascaded(u)
  BY <1>3, DeleteOneApart DEF TypeOK, DeleteCascaded, At, Open, Apart
<1>4. CASE CreateChunk(u)
  BY <1>4 DEF TypeOK, CreateChunk, Goto, At, Open, Apart
<1>5. CASE ReadChunks(u)
  BY <1>5 DEF TypeOK, ReadChunks, Goto, tables, At, Open, Apart
<1>6. CASE StartDeleteTerms(u)
  BY <1>6 DEF TypeOK, StartDeleteTerms, StartDelete, Goto, tables, At, Open, Apart
<1>7. CASE DeleteTerms(u)
  BY <1>7, DeleteOneApart DEF TypeOK, DeleteTerms, At, Open, Apart
<1>8. CASE StartDeleteStatistics(u)
  BY <1>8 DEF TypeOK, StartDeleteStatistics, StartDelete, Goto, tables, At, Open, Apart
<1>9. CASE DeleteStatistics(u)
  BY <1>9, DeleteOneApart DEF TypeOK, DeleteStatistics, At, Open, Apart
<1>10. CASE StartFill(u)
  BY <1>10 DEF TypeOK, StartFill, Goto, tables, At, Open, Apart
<1>11. CASE \E c \in read[u] : BlockOnTerms(u, c)
  BY <1>11 DEF TypeOK, BlockOnTerms, tables, At, Open, Apart
<1>12. CASE \E c \in read[u] : FillChunk(u, c)
  <2>1. PICK c \in read[u] : FillChunk(u, c)
    BY <1>12
  <2>2. \A r \in Row : \A t \in Txs \ {u} : <<r, t>> \in deleted' <=> <<r, t>> \in deleted
    BY <2>1 DEF FillChunk
  <2> QED
    BY <2>1, <2>2 DEF TypeOK, FillChunk, At, Open, Apart
<1>13. CASE CountTerm(u)
  BY <1>13 DEF TypeOK, CountTerm, At, Open, Apart
<1> QED
  BY <1>1, <1>2, <1>3, <1>4, <1>5, <1>6, <1>7, <1>8, <1>9, <1>10, <1>11, <1>12, <1>13
  DEF Statement

LEMMA AbortApart ==
  ASSUME TypeOK, NEW u \in Txs, Abort(u)
  PROVE  Apart(u)
<1>1. Open(u) /\ Rollback(u) /\ Close(u)
  BY DEF Abort, AbortByDatabase, AbortByError
<1>2. \A r \in Row : \A t \in Txs \ {u} : <<r, t>> \in deleted' <=> <<r, t>> \in deleted
  BY <1>1 DEF Rollback
<1> QED
  BY <1>1, <1>2 DEF TypeOK, Open, Rollback, Close, Apart

\* The rows a transaction sees do not change while the others do not commit.
LEMMA ApartVisible ==
  ASSUME TypeOK, TypeOK', NEW u \in Txs, NEW t \in Txs \ {u}, Apart(u)
  PROVE  /\ Visible(t, chunks)' = Visible(t, chunks)
         /\ Visible(t, termRows)' = Visible(t, termRows)
         /\ Visible(t, statRows)' = Visible(t, statRows)
<1>1. /\ chunks \subseteq Row /\ termRows \subseteq Row /\ statRows \subseteq Row
      /\ chunks' \subseteq Row /\ termRows' \subseteq Row /\ statRows' \subseteq Row
  BY DEF TypeOK, Row
<1>2. ASSUME NEW r \in Row
      PROVE  /\ ~(r.by = u /\ (r.by = t \/ status[r.by] = "committed"))
             /\ ~(r.by = u /\ (r.by = t \/ status'[r.by] = "committed"))
             /\ r.by # u => status'[r.by] = status[r.by]
             /\ <<r, t>> \in deleted' <=> <<r, t>> \in deleted
  BY RowHasWriter DEF Apart
<1>3. Visible(t, chunks)' = Visible(t, chunks)
  BY <1>1, <1>2 DEF Visible, Apart
<1>4. Visible(t, termRows)' = Visible(t, termRows)
  BY <1>1, <1>2 DEF Visible, Apart
<1>5. Visible(t, statRows)' = Visible(t, statRows)
  BY <1>1, <1>2 DEF Visible, Apart
<1> QED
  BY <1>3, <1>4, <1>5

LEMMA ApartGood ==
  ASSUME TypeOK, TypeOK', NEW u \in Txs, NEW t \in Txs \ {u}, Apart(u), Good(t)
  PROVE  Good(t)'
<1>1. Owned(t)'
  <2>1. \A r \in Row : r.by = t => /\ r \in chunks' <=> r \in chunks
                                   /\ r \in termRows' <=> r \in termRows
                                   /\ r \in statRows' <=> r \in statRows
    BY DEF Apart
  <2>2. chunks' \subseteq Row /\ termRows' \subseteq Row /\ statRows' \subseteq Row
    BY DEF TypeOK, Row
  <2>3. /\ status'[t] = status[t] /\ pc'[t] = pc[t] /\ todo'[t] = todo[t]
        /\ \A r \in Row : <<r, t>> \in deleted' <=> <<r, t>> \in deleted
    BY DEF Apart
  <2> QED
    BY <2>1, <2>2, <2>3 DEF Owned, Good, Open
<1>2. Deleting(t)'
  BY DEF Good, Deleting, Apart
<1>3. Open(t)' /\ t \notin disturbed' => Alone(t)'
  BY ApartVisible DEF Good, Alone, Apart, Open
<1> QED
  BY <1>1, <1>2, <1>3 DEF Good

-------------------------------------------------------------------------------
(* What its own steps leave to a transaction *)

LEMMA BeginGood ==
  ASSUME TypeOK, NEW t \in Txs, Begin(t), Good(t)
  PROVE  Good(t)'
<1>1. \A r \in chunks \union termRows \union statRows : r.by # t
  BY DEF Begin, BeginIngestion, BeginRefresh, StartTransaction, Good, Owned
<1>2. CASE \E d \in Docs : BeginIngestion(t, d)
  <2>1. PICK d \in Docs : BeginIngestion(t, d)
    BY <1>2
  <2>2. /\ UNCHANGED <<chunks, termRows, statRows, deleted>>
        /\ status'[t] = "open" /\ doc'[t] = d /\ pc'[t] = "replace"
        /\ todo'[t] = {c \in Visible(t, chunks) : c.doc = d}
    BY <2>1 DEF BeginIngestion, StartTransaction, StartDelete, Goto, tables, TypeOK
  <2>3. todo'[t] \subseteq chunks
    BY <2>2 DEF Visible
  <2>4. Owned(t)'
    BY <1>1, <2>2, <2>3 DEF Owned, Open, Good
  <2>5. Deleting(t)'
    BY <2>2, <2>3 DEF Deleting, TypeOK
  <2> QED
    BY <2>2, <2>4, <2>5 DEF Good, Alone
<1>3. CASE BeginRefresh(t)
  <2>1. /\ UNCHANGED <<chunks, termRows, statRows, deleted, todo>>
        /\ status'[t] = "open" /\ pc'[t] = "read"
    BY <1>3 DEF BeginRefresh, StartTransaction, Goto, tables, TypeOK
  <2> QED
    BY <1>1, <2>1 DEF Good, Owned, Deleting, Alone, Open
<1> QED
  BY <1>2, <1>3 DEF Begin

\* One row of a DELETE statement: it is deleted, or was no longer there.
LEMMA DeleteOneGood ==
  ASSUME TypeOK, NEW t \in Txs, Open(t), Good(t), DeleteOne(t),
         pc[t] \in {"replace", "cascade", "terms", "stats"},
         UNCHANGED <<chunks, termRows, statRows, status, doc, pc, read, blocked, disturbed>>
  PROVE  Good(t)'
<1>1. PICK q \in todo[t] :
        /\ deleted' = IF q \in chunks \union termRows \union statRows
                      THEN deleted \union {<<q, t>>} ELSE deleted
        /\ todo' = [todo EXCEPT ![t] = @ \ {q}]
  BY DEF DeleteOne
<1>2. q \in Row /\ todo'[t] = todo[t] \ {q}
  BY <1>1 DEF TypeOK
<1>3. Owned(t)'
  BY <1>1, <1>2 DEF Good, Owned, Open
<1>4. Deleting(t)'
  BY <1>2 DEF Good, Deleting
<1>5. ASSUME NEW rows, rows \subseteq chunks \union termRows \union statRows
      PROVE  {r \in rows : (r.by = t \/ status[r.by] = "committed") /\ <<r, t>> \notin deleted'}
               = Visible(t, rows) \ {q}
  <2>1. \A r : r \in chunks \union termRows \union statRows =>
            (<<r, t>> \in deleted' <=> <<r, t>> \in deleted \/ r = q)
    BY <1>1
  <2> QED
    BY <1>5, <2>1 DEF Visible
<1>6. /\ Visible(t, chunks)' = Visible(t, chunks) \ {q}
      /\ Visible(t, termRows)' = Visible(t, termRows) \ {q}
      /\ Visible(t, statRows)' = Visible(t, statRows) \ {q}
  <2>1. Visible(t, chunks)' = Visible(t, chunks) \ {q}
    BY <1>5 DEF Visible
  <2>2. Visible(t, termRows)' = Visible(t, termRows) \ {q}
    BY <1>5 DEF Visible
  <2>3. Visible(t, statRows)' = Visible(t, statRows) \ {q}
    BY <1>5 DEF Visible
  <2> QED
    BY <2>1, <2>2, <2>3
<1>7. pc[t] \in {"terms", "stats"} => q \notin Visible(t, chunks)
  BY TablesDiffer DEF Good, Deleting, Visible, TypeOK
<1>8. Open(t)' /\ t \notin disturbed' => Alone(t)'
  <2>1. ASSUME Alone(t)
        PROVE  Alone(t)'
    BY <1>2, <1>6, <1>7, <2>1 DEF Alone
  <2> QED
    BY <2>1 DEF Good, Open
<1> QED
  BY <1>3, <1>4, <1>8 DEF Good

\* A row t wrote is not among those it deleted.
LEMMA OwnVisible ==
  ASSUME NEW t \in Txs, Good(t), NEW rows, NEW r \in rows, r \in Row, r.by = t
  PROVE  r \in Visible(t, rows)
BY DEF Good, Owned, Visible

LEMMA FillChunkGood ==
  ASSUME TypeOK, NEW t \in Txs, Good(t), NEW c \in read[t], FillChunk(t, c)
  PROVE  Good(t)'
<1> DEFINE new == [chunk |-> c, by |-> t]
<1>1. Open(t) /\ pc[t] = "fill" /\ new \in TermRow /\ new \in Row /\ new.by = t /\ new.chunk = c
  BY DEF FillChunk, At, TypeOK, TermRow, Row
<1>2. UNCHANGED <<chunks, statRows, status, doc, pc, todo, read, disturbed>>
      /\ termRows' = termRows \union {new}
      /\ deleted' = deleted \union {<<r, t>> : r \in Visible(t, TermsRows(c))}
  BY DEF FillChunk
<1>3. \A r \in Visible(t, TermsRows(c)) : r \in termRows /\ r \in TermRow /\ r.by # t
  BY DEF FillChunk, Unfilled, Visible, TermsRows, TypeOK
<1>4. Owned(t)'
  BY <1>1, <1>2, <1>3 DEF Good, Owned, Open
<1>5. Deleting(t)'
  BY <1>2 DEF Good, Deleting
<1>6. \A r : <<r, t>> \in deleted' <=> <<r, t>> \in deleted \/ r \in Visible(t, TermsRows(c))
  BY <1>2
<1>7. Visible(t, chunks)' = Visible(t, chunks)
  <2>1. \A r \in chunks : r \notin Visible(t, TermsRows(c))
    BY <1>3, TablesDiffer DEF TypeOK
  <2> QED
    BY <1>2, <1>6, <2>1 DEF Visible
<1>8. Visible(t, termRows)' \subseteq Visible(t, termRows) \union {new}
  BY <1>2, <1>6 DEF Visible
<1>9. Visible(t, statRows)' \subseteq Visible(t, statRows)
  BY <1>2, <1>6 DEF Visible
<1>10. c \in Termed(read[t])
  BY DEF FillChunk, Unfilled
<1>11. Open(t)' /\ t \notin disturbed' => Alone(t)'
  <2>1. ASSUME Alone(t)
        PROVE  Alone(t)'
    <3>1. read[t] = Visible(t, chunks)' /\ read' = read /\ pc'[t] = "fill"
      BY <1>1, <1>2, <1>7, <2>1 DEF Alone
    <3>2. \A r \in Visible(t, termRows)' : r.by = t /\ r.chunk \in Termed(read[t])
      BY <1>1, <1>8, <1>10, <2>1 DEF Alone
    <3>3. \A r \in Visible(t, statRows)' :
            /\ r.by = t /\ r.counts = read[t]
            /\ r.term \in UNION {TermsOf[k.doc] : k \in read[t]}
      BY <1>1, <1>9, <2>1 DEF Alone
    <3> HIDE DEF new
    <3> QED
      BY <3>1, <3>2, <3>3 DEF Alone
  <2> QED
    BY <1>1, <1>2, <2>1 DEF Good, Open
<1> QED
  BY <1>4, <1>5, <1>11 DEF Good

LEMMA CountTermGood ==
  ASSUME TypeOK, NEW t \in Txs, Good(t), CountTerm(t)
  PROVE  Good(t)'
<1>1. PICK x \in NextTerm(t) : statRows' = statRows \union {[term |-> x, counts |-> read[t], by |-> t]}
  BY DEF CountTerm
<1> DEFINE new == [term |-> x, counts |-> read[t], by |-> t]
<1>2. /\ Open(t) /\ pc[t] = "fill"
      /\ UNCHANGED <<chunks, termRows, deleted, status, doc, pc, todo, read, disturbed>>
      /\ x \in UNION {TermsOf[c.doc] : c \in read[t]}
  BY DEF CountTerm, At, NextTerm, Uncounted
<1>3. new.by = t /\ new.counts = read[t] /\ new.term = x
  OBVIOUS
<1>4. Owned(t)'
  BY <1>1, <1>2, <1>3 DEF Good, Owned, Open
<1>5. Deleting(t)'
  BY <1>2 DEF Good, Deleting
<1>6. /\ Visible(t, chunks)' = Visible(t, chunks)
      /\ Visible(t, termRows)' = Visible(t, termRows)
      /\ Visible(t, statRows)' \subseteq Visible(t, statRows) \union {new}
  BY <1>1, <1>2 DEF Visible
<1>7. Open(t)' /\ t \notin disturbed' => Alone(t)'
  <2>1. ASSUME Alone(t)
        PROVE  Alone(t)'
    <3>1. \A r \in Visible(t, statRows)' :
            /\ r.by = t /\ r.counts = read[t]
            /\ r.term \in UNION {TermsOf[c.doc] : c \in read[t]}
      BY <1>2, <1>3, <1>6, <2>1 DEF Alone
    <3> HIDE DEF new
    <3> QED
      BY <1>2, <1>6, <2>1, <3>1 DEF Alone
  <2> QED
    BY <1>2, <2>1 DEF Good, Open
<1> QED
  BY <1>4, <1>5, <1>7 DEF Good

\* The statements that only start a DELETE, read, or go on.
LEMMA AdvanceGood ==
  ASSUME TypeOK, NEW t \in Txs, Good(t),
         \/ Cascade(t) \/ CreateChunk(t) \/ ReadChunks(t) \/ StartDeleteTerms(t)
         \/ StartDeleteStatistics(t) \/ StartFill(t)
         \/ \E c \in read[t] : BlockOnTerms(t, c)
  PROVE  Good(t)'
<1>1. /\ Visible(t, chunks) \subseteq chunks
      /\ Visible(t, termRows) \subseteq termRows
      /\ Visible(t, statRows) \subseteq statRows
  BY DEF Visible
<1>2. CASE Cascade(t)
  <2>1. /\ Open(t) /\ pc[t] = "replace" /\ pc'[t] = "cascade"
        /\ todo'[t] \subseteq Visible(t, termRows)
        /\ UNCHANGED <<tables, status, doc, disturbed>>
    BY <1>2 DEF Cascade, StartDelete, Goto, At, TypeOK
  <2> QED
    BY <1>1, <2>1 DEF Good, Owned, Deleting, Alone, Open, tables, TypeOK
<1>3. CASE CreateChunk(t)
  <2>1. /\ Open(t) /\ pc[t] = "cascade" /\ pc'[t] = "read"
        /\ UNCHANGED <<termRows, statRows, deleted, status, doc, todo, disturbed>>
    BY <1>3 DEF CreateChunk, Goto, At, TypeOK
  <2> QED
    BY <2>1 DEF Good, Owned, Deleting, Alone, Open
<1>4. CASE ReadChunks(t)
  <2>1. /\ Open(t) /\ pc[t] = "read" /\ pc'[t] = "delete_terms"
        /\ read'[t] = Visible(t, chunks) /\ Visible(t, chunks)' = Visible(t, chunks)
        /\ UNCHANGED <<tables, status, doc, todo, disturbed>>
    BY <1>4 DEF ReadChunks, Goto, At, TypeOK, Visible, tables
  <2> QED
    BY <2>1 DEF Good, Owned, Deleting, Alone, Open, tables
<1>5. CASE StartDeleteTerms(t)
  <2>1. /\ Open(t) /\ pc[t] = "delete_terms" /\ pc'[t] = "terms"
        /\ todo'[t] = Visible(t, termRows)
        /\ Visible(t, chunks)' = Visible(t, chunks) /\ Visible(t, termRows)' = Visible(t, termRows)
        /\ UNCHANGED <<tables, status, doc, read, disturbed>>
    BY <1>5 DEF StartDeleteTerms, StartDelete, Goto, At, TypeOK, Visible, tables
  <2> QED
    BY <1>1, <2>1 DEF Good, Owned, Deleting, Alone, Open, tables, TypeOK
<1>6. CASE StartDeleteStatistics(t)
  <2>1. /\ Open(t) /\ pc[t] = "terms" /\ todo[t] = {} /\ pc'[t] = "stats"
        /\ todo'[t] = Visible(t, statRows)
        /\ Visible(t, chunks)' = Visible(t, chunks) /\ Visible(t, termRows)' = Visible(t, termRows)
        /\ Visible(t, statRows)' = Visible(t, statRows)
        /\ UNCHANGED <<tables, status, doc, read, disturbed>>
    BY <1>6 DEF StartDeleteStatistics, StartDelete, Goto, At, TypeOK, Visible, tables
  <2> QED
    BY <1>1, <2>1 DEF Good, Owned, Deleting, Alone, Open, tables, TypeOK
<1>7. CASE StartFill(t)
  <2>1. /\ Open(t) /\ pc[t] = "stats" /\ todo[t] = {} /\ pc'[t] = "fill"
        /\ Visible(t, chunks)' = Visible(t, chunks) /\ Visible(t, termRows)' = Visible(t, termRows)
        /\ Visible(t, statRows)' = Visible(t, statRows)
        /\ UNCHANGED <<tables, status, doc, todo, read, disturbed>>
    BY <1>7 DEF StartFill, Goto, At, TypeOK, Visible, tables
  <2> QED
    BY <2>1 DEF Good, Owned, Deleting, Alone, Open, tables
<1>8. CASE \E c \in read[t] : BlockOnTerms(t, c)
  <2>1. /\ Visible(t, chunks)' = Visible(t, chunks) /\ Visible(t, termRows)' = Visible(t, termRows)
        /\ Visible(t, statRows)' = Visible(t, statRows)
        /\ UNCHANGED <<tables, status, doc, pc, todo, read, disturbed>>
    BY <1>8 DEF BlockOnTerms, Visible, tables
  <2> QED
    BY <2>1 DEF Good, Owned, Deleting, Alone, Open, tables
<1> QED
  BY <1>2, <1>3, <1>4, <1>5, <1>6, <1>7, <1>8

LEMMA StatementGood ==
  ASSUME TypeOK, NEW t \in Txs, Good(t), Statement(t)
  PROVE  Good(t)'
<1>1. CASE DeleteChunk(t) \/ DeleteCascaded(t) \/ DeleteTerms(t) \/ DeleteStatistics(t)
  BY <1>1, DeleteOneGood DEF DeleteChunk, DeleteCascaded, DeleteTerms, DeleteStatistics, At
<1> QED
  BY <1>1, AdvanceGood, FillChunkGood, CountTermGood DEF Statement

\* An aborted transaction owns no row and deletes none.
LEMMA AbortGood ==
  ASSUME TypeOK, NEW t \in Txs, Good(t), Abort(t)
  PROVE  Good(t)'
<1>1. Rollback(t) /\ Close(t)
  BY DEF Abort, AbortByDatabase, AbortByError
<1>2. /\ status'[t] = "aborted" /\ pc'[t] = "begin" /\ todo'[t] = {}
      /\ \A r \in Row : <<r, t>> \notin deleted'
  BY <1>1 DEF Rollback, Close, TypeOK
<1> QED
  BY <1>2 DEF Good, Owned, Deleting, Open

LEMMA CommitGood ==
  ASSUME TypeOK, NEW u \in Txs, NEW t \in Txs, Good(t), Commit(u)
  PROVE  Good(t)'
<1>1. /\ chunks' \subseteq chunks /\ termRows' \subseteq termRows /\ statRows' \subseteq statRows
      /\ deleted' \subseteq deleted
  BY DEF Commit
<1>2. CASE t = u
  <2>1. status'[t] = "committed" /\ pc'[t] = "begin" /\ todo'[t] = {}
    BY <1>2 DEF Commit, Close, TypeOK
  <2> QED
    BY <1>1, <2>1 DEF Good, Owned, Deleting, Open
<1>3. CASE t # u
  <2>1. /\ status'[t] = status[t] /\ doc'[t] = doc[t] /\ pc'[t] = pc[t] /\ todo'[t] = todo[t]
    BY <1>3 DEF Commit, Close, TypeOK
  <2>2. Open(t)' => t \in disturbed'
    BY <1>3, <2>1 DEF Commit, Open
  <2> QED
    BY <1>1, <2>1, <2>2 DEF Good, Owned, Deleting, Open
<1> QED
  BY <1>2, <1>3

-------------------------------------------------------------------------------
(* The invariant, and what it says at a commit *)

LEMMA InitIInv == Init => IInv
<1> SUFFICES ASSUME Init PROVE IInv
  OBVIOUS
<1>1. TypeOK
  BY DEF Init, TypeOK, Statements
<1>2. ASSUME NEW t \in Txs PROVE Good(t)
  BY DEF Init, Good, Owned, Deleting, Open
<1> QED
  BY <1>1, <1>2 DEF IInv, IGood

LEMMA NextIInv == IInv /\ [Next]_vars => IInv'
<1> SUFFICES ASSUME IInv, [Next]_vars PROVE IInv'
  OBVIOUS
<1>1. TypeOK /\ \A t \in Txs : Good(t)
  BY DEF IInv, IGood
<1>2. TypeOK'
  BY <1>1, NextType DEF Good
<1>3. ASSUME NEW t \in Txs PROVE Good(t)'
  <2>1. CASE UNCHANGED vars
    BY <1>1, <2>1 DEF vars, Good, Owned, Deleting, Alone, Open, Visible
  <2>2. SUFFICES ASSUME NEW u \in Txs, Begin(u) \/ Statement(u) \/ Abort(u) \/ Commit(u)
                 PROVE  Good(t)'
    BY <2>1, NextCases
  <2>3. CASE Commit(u)
    BY <1>1, <2>3, CommitGood
  <2>4. CASE u = t /\ ~Commit(u)
    BY <1>1, <2>2, <2>4, BeginGood, StatementGood, AbortGood
  <2>5. CASE u # t /\ ~Commit(u)
    <3>1. Apart(u)
      BY <1>1, <2>2, <2>5, BeginApart, StatementApart, AbortApart
    <3> QED
      BY <1>1, <1>2, <2>5, <3>1, ApartGood
  <2> QED
    BY <2>3, <2>4, <2>5
<1> QED
  BY <1>2, <1>3 DEF IInv, IGood

\* A transaction sees what there is once it has committed.
LEMMA CommitPublishes ==
  ASSUME TypeOK, NEW t \in Txs, Commit(t)
  PROVE  /\ Committed(chunks)' = Visible(t, chunks)
         /\ Committed(termRows)' = Visible(t, termRows)
         /\ Committed(statRows)' = Visible(t, statRows)
<1>1. /\ chunks \subseteq Row /\ termRows \subseteq Row /\ statRows \subseteq Row
  BY DEF TypeOK, Row
<1>2. \A r \in Row : r \in Gone(t) <=> <<r, t>> \in deleted
  <2>1. \A e \in deleted : e[2] = t => e = <<e[1], t>>
    BY DEF TypeOK
  <2> QED
    BY <2>1 DEF Gone
<1>3. \A r \in Row : status'[r.by] = "committed" <=> r.by = t \/ status[r.by] = "committed"
  BY RowHasWriter DEF Commit, TypeOK
<1>4. /\ chunks' = chunks \ Gone(t) /\ termRows' = termRows \ Gone(t)
      /\ statRows' = statRows \ Gone(t)
  BY DEF Commit
<1> QED
  BY <1>1, <1>2, <1>3, <1>4 DEF Committed, Visible

LEMMA UndisturbedCommit ==
  ASSUME TypeOK, NEW t \in Txs, t \notin disturbed, Good(t), Commit(t)
  PROVE  Exact'
<1>1. /\ Open(t) /\ pc[t] = "fill" /\ Unfilled(t) = {} /\ Uncounted(t) = {}
  BY DEF Commit, At
<1>2. Alone(t)
  BY <1>1 DEF Good
<1>3. LiveChunks' = read[t]
  BY <1>1, <1>2, CommitPublishes DEF Alone, LiveChunks
<1>4. ASSUME NEW c \in Termed(read[t])
      PROVE  c \in {r.chunk : r \in Visible(t, termRows)}
  <2>1. PICK r \in termRows : r.chunk = c /\ r.by = t
    BY <1>1 DEF Unfilled, TermsRows
  <2>2. r \in Visible(t, termRows)
    BY <2>1, OwnVisible DEF TypeOK, Row
  <2> QED
    BY <2>1, <2>2
<1>5. {r.chunk : r \in Visible(t, termRows)} = Termed(read[t])
  BY <1>1, <1>2, <1>4 DEF Alone
<1>6. IndexedChunks' = Termed(LiveChunks)'
  BY <1>3, <1>5, CommitPublishes DEF IndexedChunks, Termed
<1> DEFINE terms == UNION {TermsOf[c.doc] : c \in read[t]}
           counted == {<<r.term, r.counts>> : r \in Visible(t, statRows)}
<1>7. ASSUME NEW x \in terms
      PROVE  <<x, read[t]>> \in counted
  <2>1. PICK r \in statRows : r.term = x /\ r.by = t
    BY <1>1 DEF Uncounted, StatsRows
  <2>2. r \in Visible(t, statRows)
    BY <2>1, OwnVisible DEF TypeOK, Row
  <2>3. r.counts = read[t]
    BY <1>1, <1>2, <2>2 DEF Alone
  <2> QED
    BY <2>1, <2>2, <2>3
<1>8. \A r \in Visible(t, statRows) : r.term \in terms /\ r.counts = read[t]
  BY <1>1, <1>2 DEF Alone
<1>9. counted = {<<x, read[t]>> : x \in terms}
  <2> HIDE DEF terms
  <2> QED
    BY <1>7, <1>8
<1>10. Exact' <=> /\ IndexedChunks' = Termed(LiveChunks)'
                  /\ {<<r.term, r.counts>> : r \in Committed(statRows)'} =
                       {<<x, LiveChunks'>> : x \in UNION {TermsOf[c.doc] : c \in LiveChunks'}}
  BY DEF Exact
<1> QED
  BY <1>3, <1>6, <1>9, <1>10, CommitPublishes

\* Only its commit makes a transaction committed.
LEMMA OnlyCommitCommits ==
  ASSUME TypeOK, [Next]_vars, NEW t \in Txs, status[t] # "committed", status'[t] = "committed"
  PROVE  Commit(t)
<1>1. PICK u \in Txs : Begin(u) \/ Statement(u) \/ Abort(u) \/ Commit(u)
  BY NextCases DEF vars
<1>2. ~Apart(u)
  BY DEF Apart
<1>3. Commit(u)
  BY <1>1, <1>2, BeginApart, StatementApart, AbortApart
<1>4. u = t
  BY <1>3 DEF Commit, TypeOK
<1> QED
  BY <1>3, <1>4

-------------------------------------------------------------------------------
(* Theorems *)

\* What the statements read, delete and insert are rows of the tables they are about.
THEOREM TypeCorrect == Spec => []TypeOK
<1>1. IInv => TypeOK
  BY DEF IInv
<1> QED
  BY <1>1, InitIInv, NextIInv, PTL DEF Spec

\* However many transactions ingest documents and refresh the index, and whichever of
\* them fail, a refresh during which no other one commits leaves the index exact.
THEOREM UndisturbedRefreshIsExact == Spec => UndisturbedIsExact
<1>1. IInv /\ [Next]_vars =>
        [\A t \in Txs \ disturbed : status[t] = "open" /\ status'[t] = "committed" => Exact']_vars
  <2> SUFFICES ASSUME IInv, [Next]_vars, NEW t \in Txs \ disturbed,
                      status[t] = "open", status'[t] = "committed"
               PROVE  Exact'
    OBVIOUS
  <2>1. TypeOK /\ Good(t)
    BY DEF IInv, IGood
  <2>2. Commit(t)
    BY <2>1, OnlyCommitCommits
  <2> QED
    BY <2>1, <2>2, UndisturbedCommit
<1> QED
  BY <1>1, InitIInv, NextIInv, PTL DEF Spec, UndisturbedIsExact

-------------------------------------------------------------------------------
(* What the rows of the statistics count: the second inductive invariant *)

\* The rows t has deleted, or its DELETE is about to.
Doomed(t, r) == <<r, t>> \in deleted \/ r \in todo[t]

\* Only a transaction that may still commit, or has, owns rows, and only rows of the
\* latter are deleted.
Durable ==
  /\ \A r \in chunks \union termRows \union statRows : Open(r.by) \/ status[r.by] = "committed"
  /\ \A t \in Txs : \A r \in Row : Doomed(t, r) => Open(t) /\ status[r.by] = "committed"
  /\ \A t \in Txs : pc[t] = "fill" => todo[t] = {}

\* What t read when its refresh began: no chunk of another open transaction, and none
\* that t has deleted.
Reads(t) ==
  /\ ~Open(t) \/ pc[t] \notin {"delete_terms", "terms", "stats", "fill"} => read[t] = {}
  /\ \A c \in read[t] : (c.by = t \/ status[c.by] = "committed") /\ <<c, t>> \notin deleted

\* The terms an open transaction has inserted keep their chunk from being deleted.
Locks(t) ==
  Open(t) => \A r \in termRows :
    r.by = t => /\ r.chunk \in chunks /\ r.chunk \in read[t]
                /\ \A u \in Txs \ {t} : <<r.chunk, u>> \notin deleted

\* The statistics an open transaction has inserted take the place of those it deleted.
Counts(t) ==
  Open(t) => \A r \in statRows :
    r.by = t => /\ r.counts = read[t]
                /\ \A q \in statRows : q.term = r.term /\ q # r => <<q, t>> \in deleted

\* Once its DELETE of the statistics has started, t deletes those that count a chunk with
\* terms it has deleted, and those of another transaction all or not at all.
Sweeps(t) ==
  pc[t] \in {"stats", "fill"} =>
    \A r \in Committed(statRows) :
      /\ \A c \in Termed(r.counts) : <<c, t>> \in deleted => Doomed(t, r)
      /\ \A q \in Committed(statRows) : q.by = r.by => (Doomed(t, r) <=> Doomed(t, q))

\* The committed statistics: the chunks with terms they count are there, each
\* transaction's are there for all terms of these or not at all, and no term has two.
StatisticsInv ==
  /\ \A r \in Committed(statRows) : Termed(r.counts) \subseteq LiveChunks
  /\ \A r \in Committed(statRows) : \A c \in r.counts : \A x \in TermsOf[c.doc] :
       \E q \in Committed(statRows) : q.term = x /\ q.by = r.by /\ q.counts = r.counts
  /\ \A r, q \in Committed(statRows) : r.term = q.term => r = q

\* All that is said of transaction t.
Own(t) == Reads(t) /\ Locks(t) /\ Counts(t) /\ Sweeps(t)

CountInv == IsFiniteSet(chunks) /\ Durable /\ StatisticsInv /\ \A t \in Txs : Own(t)

-------------------------------------------------------------------------------
(* The documents of what is read and counted: the third inductive invariant *)

OneEach(S) == \A c, k \in S : c.doc = k.doc => c = k

\* The places of an ingestion that has created the chunk of its document.
Created == {"read", "delete_terms", "terms", "stats", "fill"}

\* An ingestion deletes the chunk of its document, no other one, and has one in its place.
Ingests(t) ==
  /\ pc[t] # "replace" => \A c \in Chunk : c \notin todo[t]
  /\ Open(t) =>
       /\ \A c \in LiveChunks : Doomed(t, c) <=> c.doc = doc[t]
       /\ \A c \in chunks : c.by = t => c.doc = doc[t] /\ pc[t] \in Created
       /\ pc[t] \in Created /\ doc[t] \in Docs => [doc |-> doc[t], by |-> t] \in chunks

\* What t has read: one chunk of a document, its own or of a document that still has one.
Sees(t) ==
  /\ OneEach(read[t])
  /\ \A c \in read[t] : (c.by = t /\ c \in chunks) \/ c.doc \in Documents(LiveChunks)

\* The committed statistics count one chunk of a document, and no document that has none.
Covers ==
  \A r \in Committed(statRows) :
    OneEach(r.counts) /\ Documents(r.counts) \subseteq Documents(LiveChunks)

DocumentsInv ==
  /\ OneEach(LiveChunks)
  /\ \A t, u \in Txs : Open(t) /\ Open(u) /\ doc[t] = doc[u] /\ doc[t] \in Docs => t = u
  /\ Covers
  /\ \A t \in Txs : Ingests(t) /\ Sees(t)

-------------------------------------------------------------------------------
(* Steps that are no commit *)

LEMMA TablesType ==
  ASSUME TypeOK
  PROVE  /\ chunks \subseteq Row /\ termRows \subseteq Row /\ statRows \subseteq Row
         /\ \A r \in statRows : r.counts \subseteq Chunk /\ r.counts \subseteq Row
         /\ \A r \in termRows : r.chunk \in Chunk /\ r.chunk \in Row
BY DEF TypeOK, Row, StatRow, TermRow

\* What is committed stays what it is.
LEMMA ApartCommitted ==
  ASSUME TypeOK, TypeOK', NEW u \in Txs, Apart(u)
  PROVE  /\ Committed(chunks)' = Committed(chunks)
         /\ Committed(statRows)' = Committed(statRows)
         /\ \A t \in Txs : status[t] = "committed" <=> status'[t] = "committed"
<1>1. /\ chunks \subseteq Row /\ statRows \subseteq Row
      /\ chunks' \subseteq Row /\ statRows' \subseteq Row
  BY TablesType DEF TypeOK, Row
<1>2. \A t \in Txs : status[t] = "committed" <=> status'[t] = "committed"
  BY DEF Apart
<1>3. \A r \in Row : /\ status'[r.by] = "committed" <=> status[r.by] = "committed"
                     /\ status[r.by] = "committed" => r.by # u
  BY <1>2, RowHasWriter DEF Apart
<1>4. Committed(chunks)' = Committed(chunks)
  BY <1>1, <1>3 DEF Committed, Apart
<1>5. Committed(statRows)' = Committed(statRows)
  BY <1>1, <1>3 DEF Committed, Apart
<1> QED
  BY <1>2, <1>4, <1>5

LEMMA ApartStatistics ==
  ASSUME TypeOK, TypeOK', NEW u \in Txs, Apart(u), StatisticsInv
  PROVE  StatisticsInv'
BY ApartCommitted DEF StatisticsInv, LiveChunks

\* Row r is deleted by this step of transaction u.
Deletes(u, r) == <<r, u>> \notin deleted /\ <<r, u>> \in deleted'

\* A step deletes rows of its DELETE statement for which nobody is waited for, or terms
\* that were there when it fills a chunk.
LEMMA StatementDeletes ==
  ASSUME TypeOK, NEW u \in Txs, Good(u), Statement(u), NEW r \in Row, Deletes(u, r)
  PROVE  /\ r \in Chunk => pc[u] = "replace" /\ Inserters(u, TermsRows(r)) = {}
         /\ r \in todo[u] \/ (r \in Visible(u, termRows) /\ r.by # u)
<1>1. CASE DeleteChunk(u) \/ DeleteCascaded(u) \/ DeleteTerms(u) \/ DeleteStatistics(u)
  <2>1. DeleteOne(u)
    BY <1>1 DEF DeleteChunk, DeleteCascaded, DeleteTerms, DeleteStatistics
  <2>2. PICK q \in todo[u] :
          /\ ToDelete(u, q) = {}
          /\ deleted' = IF q \in chunks \union termRows \union statRows
                        THEN deleted \union {<<q, u>>} ELSE deleted
    BY <2>1 DEF DeleteOne
  <2>3. r = q
    BY <2>2 DEF Deletes
  <2>4. r \in Chunk => Inserters(u, TermsRows(r)) = {}
    BY <2>2, <2>3 DEF ToDelete
  <2>5. r \in Chunk => pc[u] = "replace"
    BY <1>1, <2>2, <2>3, TablesDiffer
    DEF Good, Deleting, At, DeleteChunk, DeleteCascaded, DeleteTerms, DeleteStatistics
  <2> QED
    BY <2>2, <2>3, <2>4, <2>5
<1>2. CASE \E c \in read[u] : FillChunk(u, c)
  <2>1. PICK c \in read[u] : FillChunk(u, c)
    BY <1>2
  <2>2. r \in Visible(u, TermsRows(c))
    BY <2>1 DEF FillChunk, Deletes
  <2>3. r \in Visible(u, termRows) /\ r \in TermRow /\ r.by # u
    BY <2>1, <2>2 DEF FillChunk, Unfilled, Visible, TermsRows, TypeOK
  <2> QED
    BY <2>3, TablesDiffer
<1>3. CASE deleted' = deleted
  BY <1>3 DEF Deletes
<1>4. CASE ~(DeleteChunk(u) \/ DeleteCascaded(u) \/ DeleteTerms(u) \/ DeleteStatistics(u)
             \/ \E c \in read[u] : FillChunk(u, c))
  <2>1. deleted' = deleted
    BY <1>4 DEF Statement, Cascade, CreateChunk, ReadChunks, StartDeleteTerms, StartDeleteStatistics,
                StartFill, BlockOnTerms, CountTerm, tables
  <2> QED
    BY <2>1, <1>3
<1> QED
  BY <1>1, <1>2, <1>4

LEMMA ApartReads ==
  ASSUME TypeOK, TypeOK', NEW u \in Txs, NEW t \in Txs \ {u}, Apart(u), Reads(t)
  PROVE  Reads(t)'
<1>1. read'[t] = read[t] /\ pc'[t] = pc[t]
  BY DEF Apart
<1>2. \A c \in read[t] : c \in Row /\ c.by \in Txs
  BY RowHasWriter DEF TypeOK, Row
<1>3. \A c \in read[t] : (c.by = t \/ status'[c.by] = "committed") /\ <<c, t>> \notin deleted'
  BY <1>2, ApartCommitted DEF Reads, Apart
<1> QED
  BY <1>1, <1>3 DEF Reads, Apart, Open

LEMMA ApartLocks ==
  ASSUME TypeOK, TypeOK', NEW u \in Txs, NEW t \in Txs \ {u}, Apart(u), Reads(t), Locks(t),
         \A r \in Chunk : Deletes(u, r) => Inserters(u, TermsRows(r)) = {}
  PROVE  Locks(t)'
<1> SUFFICES ASSUME Open(t)', NEW r \in termRows', r.by = t
             PROVE  /\ r.chunk \in chunks' /\ r.chunk \in read'[t]
                    /\ \A v \in Txs \ {t} : <<r.chunk, v>> \notin deleted'
  BY DEF Locks
<1>1. Open(t) /\ r \in termRows /\ read'[t] = read[t]
  <2>1. r \in Row
    BY DEF TypeOK, Row
  <2> QED
    BY <2>1 DEF Apart, Open
<1>2. /\ r.chunk \in chunks /\ r.chunk \in read[t] /\ r.chunk \in Row /\ r.chunk \in Chunk
      /\ \A v \in Txs \ {t} : <<r.chunk, v>> \notin deleted
  BY <1>1, TablesType DEF Locks
<1>3. r.chunk.by # u
  <2>1. r.chunk.by = t \/ status[r.chunk.by] = "committed"
    BY <1>2 DEF Reads
  <2>2. status[u] # "committed" /\ t # u
    BY DEF Apart
  <2> QED
    BY <2>1, <2>2
<1>4. r.chunk \in chunks'
  BY <1>2, <1>3 DEF Apart
<1>5. t \in Inserters(u, TermsRows(r.chunk))
  BY <1>1 DEF Inserters, TermsRows
<1>6. <<r.chunk, u>> \notin deleted'
  BY <1>2, <1>5 DEF Deletes
<1>7. \A v \in Txs \ {t} : <<r.chunk, v>> \notin deleted'
  BY <1>2, <1>6 DEF Apart
<1> QED
  BY <1>1, <1>2, <1>4, <1>7

LEMMA ApartCounts ==
  ASSUME TypeOK, TypeOK', NEW u \in Txs, NEW t \in Txs \ {u}, Apart(u), Counts(t),
         \A r \in statRows' \ statRows : Inserters(u, StatsRows(r.term)) = {}
  PROVE  Counts(t)'
<1> SUFFICES ASSUME Open(t)', NEW r \in statRows', r.by = t
             PROVE  /\ r.counts = read'[t]
                    /\ \A q \in statRows' : q.term = r.term /\ q # r => <<q, t>> \in deleted'
  BY DEF Counts
<1>1. statRows' \subseteq Row
  BY DEF TypeOK, Row
<1>2. Open(t) /\ r \in statRows /\ read'[t] = read[t]
  BY <1>1 DEF Apart, Open
<1>3. ASSUME NEW q \in statRows', q.term = r.term, q # r
      PROVE  <<q, t>> \in deleted'
  <2>1. t \in Inserters(u, StatsRows(q.term))
    BY <1>2, <1>3 DEF Inserters, StatsRows
  <2>2. q \in statRows
    BY <2>1
  <2>3. <<q, t>> \in deleted
    BY <1>2, <1>3, <2>2 DEF Counts
  <2> QED
    BY <1>1, <2>3 DEF Apart
<1> QED
  BY <1>2, <1>3 DEF Counts

LEMMA ApartSweeps ==
  ASSUME TypeOK, TypeOK', NEW u \in Txs, NEW t \in Txs \ {u}, Apart(u), Sweeps(t)
  PROVE  Sweeps(t)'
<1>1. \A r \in Row : Doomed(t, r)' <=> Doomed(t, r)
  BY DEF Apart, Doomed
<1>2. /\ Committed(statRows) \subseteq Row
      /\ \A r \in Committed(statRows) : r.counts \subseteq Row
  BY TablesType DEF Committed
<1>3. \A c \in Row : <<c, t>> \in deleted' <=> <<c, t>> \in deleted
  BY DEF Apart
<1>4. Committed(statRows)' = Committed(statRows) /\ pc'[t] = pc[t]
  BY ApartCommitted DEF Apart
<1> QED
  BY <1>1, <1>2, <1>3, <1>4 DEF Sweeps, Termed

LEMMA ApartDurable ==
  ASSUME TypeOK, TypeOK', NEW u \in Txs, Apart(u), Durable,
         \A r \in chunks' \union termRows' \union statRows' : r.by = u => Open(u)',
         \A r \in Row : Doomed(u, r)' => Open(u)' /\ status[r.by] = "committed",
         pc'[u] = "fill" => todo'[u] = {}
  PROVE  Durable'
<1>1. /\ chunks' \subseteq Row /\ termRows' \subseteq Row /\ statRows' \subseteq Row
      /\ \A r \in Row : r.by \in Txs
  BY RowHasWriter DEF TypeOK, Row
<1>2. \A r \in chunks' \union termRows' \union statRows' : Open(r.by)' \/ status'[r.by] = "committed"
  BY <1>1 DEF Durable, Apart, Open
<1>3. ASSUME NEW t \in Txs, NEW r \in Row, Doomed(t, r)'
      PROVE  Open(t)' /\ status'[r.by] = "committed"
  <2>1. status[r.by] = "committed" => status'[r.by] = "committed"
    BY <1>1, ApartCommitted
  <2>2. CASE t = u
    BY <2>1, <2>2, <1>3
  <2>3. CASE t # u
    BY <2>1, <2>3, <1>3 DEF Durable, Doomed, Apart, Open
  <2> QED
    BY <2>2, <2>3
<1>4. \A t \in Txs : pc'[t] = "fill" => todo'[t] = {}
  BY DEF Durable, Apart
<1> QED
  BY <1>2, <1>3, <1>4 DEF Durable

-------------------------------------------------------------------------------
(* What the steps of a transaction leave to itself *)

LEMMA BeginOwn ==
  ASSUME TypeOK, TypeOK', NEW u \in Txs, Good(u), Durable, Own(u), Begin(u)
  PROVE  Durable' /\ Own(u)' /\ chunks' = chunks /\ deleted' = deleted /\ statRows' = statRows
<1>1. /\ UNCHANGED tables /\ UNCHANGED read
      /\ status[u] = "new" /\ status'[u] = "open" /\ pc'[u] \in {"replace", "read"}
      /\ todo'[u] = todo[u] \/ \E d \in Docs : todo'[u] = {c \in Visible(u, chunks) : c.doc = d}
  BY DEF Begin, BeginIngestion, BeginRefresh, StartTransaction, StartDelete, Goto, tables, TypeOK
<1>2. ~Open(u) /\ \A r \in chunks \union termRows \union statRows : r.by # u
  BY <1>1 DEF Open, Good, Owned
<1>3. Apart(u)
  BY BeginApart
<1>4. ASSUME NEW r \in Row, Doomed(u, r)' PROVE Open(u)' /\ status[r.by] = "committed"
  <2>1. ~Doomed(u, r)
    BY <1>2 DEF Durable
  <2>2. r \in todo'[u] /\ r \notin todo[u]
    BY <2>1, <1>1, <1>4 DEF Doomed, tables
  <2>3. r \in Visible(u, chunks)
    BY <2>2, <1>1
  <2> QED
    BY <2>3, <1>1, <1>2 DEF Visible, Open
<1>5. Durable'
  BY <1>1, <1>3, <1>4, ApartDurable DEF Open, tables
<1>6. Reads(u)'
  BY <1>1, <1>2 DEF Own, Reads
<1>7. Locks(u)' /\ Counts(u)' /\ Sweeps(u)'
  BY <1>1, <1>2 DEF Locks, Counts, Sweeps, tables
<1> QED
  BY <1>1, <1>5, <1>6, <1>7 DEF Own, tables

LEMMA AbortOwn ==
  ASSUME TypeOK, TypeOK', NEW u \in Txs, Durable, Abort(u)
  PROVE  Durable' /\ Own(u)' /\ chunks' \subseteq chunks /\ statRows' \subseteq statRows
         /\ deleted' \subseteq deleted
<1>1. Rollback(u) /\ Close(u)
  BY DEF Abort, AbortByDatabase, AbortByError
<1>2. /\ status'[u] = "aborted" /\ pc'[u] = "begin" /\ todo'[u] = {} /\ read'[u] = {}
      /\ \A r \in Row : <<r, u>> \notin deleted'
      /\ \A r \in chunks' \union termRows' \union statRows' : r.by # u
      /\ chunks' \subseteq chunks /\ statRows' \subseteq statRows /\ deleted' \subseteq deleted
  BY <1>1 DEF Rollback, Close, TypeOK
<1>3. Durable'
  BY <1>2, AbortApart, ApartDurable DEF Doomed
<1> QED
  BY <1>2, <1>3 DEF Own, Reads, Locks, Counts, Sweeps, Open

\* A DELETE statement starts with rows of others, or goes on.
LEMMA StatementTodo ==
  ASSUME TypeOK, NEW u \in Txs, Good(u), Statement(u)
  PROVE  \A r \in todo'[u] : r \in todo[u] \/ (r.by # u /\ status[r.by] = "committed")
<1>1. CASE DeleteChunk(u) \/ DeleteCascaded(u) \/ DeleteTerms(u) \/ DeleteStatistics(u)
  <2>1. DeleteOne(u)
    BY <1>1 DEF DeleteChunk, DeleteCascaded, DeleteTerms, DeleteStatistics
  <2> QED
    BY <2>1 DEF DeleteOne, TypeOK
<1>2. CASE Cascade(u) \/ StartDeleteTerms(u) \/ StartDeleteStatistics(u)
  <2>1. /\ Open(u) /\ pc[u] # "fill"
        /\ todo'[u] \subseteq Visible(u, termRows) \union Visible(u, statRows)
    BY <1>2 DEF Cascade, StartDeleteTerms, StartDeleteStatistics, StartDelete, At, TypeOK
  <2>2. \A r \in termRows \union statRows : r.by # u
    BY <2>1 DEF Good, Owned
  <2> QED
    BY <2>1, <2>2 DEF Visible
<1>3. CASE ~(DeleteChunk(u) \/ DeleteCascaded(u) \/ DeleteTerms(u) \/ DeleteStatistics(u)
             \/ Cascade(u) \/ StartDeleteTerms(u) \/ StartDeleteStatistics(u))
  <2>1. todo' = todo
    BY <1>3 DEF Statement, CreateChunk, ReadChunks, StartFill, BlockOnTerms, FillChunk, CountTerm
  <2> QED
    BY <2>1
<1> QED
  BY <1>1, <1>2, <1>3

LEMMA StatementDurable ==
  ASSUME TypeOK, TypeOK', NEW u \in Txs, Good(u), Durable, Statement(u)
  PROVE  Durable'
<1>1. Apart(u) /\ Open(u) /\ Open(u)'
  BY StatementApart DEF Open
<1>2. ASSUME NEW r \in Row, Doomed(u, r)' PROVE status[r.by] = "committed"
  <2>1. CASE Doomed(u, r)
    BY <2>1 DEF Durable
  <2>2. CASE ~Doomed(u, r) /\ r \in todo'[u]
    BY <2>2, StatementTodo DEF Doomed
  <2>3. CASE ~Doomed(u, r) /\ <<r, u>> \in deleted'
    <3>1. Deletes(u, r) /\ r \notin todo[u]
      BY <2>3 DEF Doomed, Deletes
    <3>2. r \in Visible(u, termRows) /\ r.by # u
      BY <3>1, StatementDeletes
    <3> QED
      BY <3>2 DEF Visible
  <2> QED
    BY <1>2, <2>1, <2>2, <2>3 DEF Doomed
<1>3. pc'[u] = "fill" => todo'[u] = {}
  <2>1. CASE StartFill(u)
    BY <2>1 DEF StartFill
  <2>2. CASE (\E c \in read[u] : BlockOnTerms(u, c) \/ FillChunk(u, c)) \/ CountTerm(u)
    BY <2>2 DEF BlockOnTerms, FillChunk, CountTerm, At, Durable
  <2>3. CASE ~(StartFill(u) \/ (\E c \in read[u] : BlockOnTerms(u, c) \/ FillChunk(u, c)) \/ CountTerm(u))
    <3>1. pc'[u] # "fill"
      BY <2>3 DEF Statement, DeleteChunk, Cascade, DeleteCascaded, CreateChunk, ReadChunks,
                  StartDeleteTerms, DeleteTerms, StartDeleteStatistics, DeleteStatistics,
                  StartDelete, Goto, At, TypeOK
    <3> QED
      BY <3>1
  <2> QED
    BY <2>1, <2>2, <2>3
<1> QED
  BY <1>1, <1>2, <1>3, ApartDurable

LEMMA StatementReads ==
  ASSUME TypeOK, NEW u \in Txs, Good(u), Reads(u), Statement(u)
  PROVE  Reads(u)'
<1>1. Open(u) /\ status' = status
  BY StatementApart
<1>2. ASSUME NEW c \in read[u], read'[u] = read[u] PROVE <<c, u>> \notin deleted'
  <2>1. c \in Chunk /\ c \in Row
    BY DEF TypeOK, Row
  <2>2. pc[u] # "replace" /\ <<c, u>> \notin deleted
    BY <1>1 DEF Reads
  <2> QED
    BY <2>1, <2>2, StatementDeletes DEF Deletes
<1>3. CASE ReadChunks(u)
  <2>1. /\ read'[u] = Visible(u, chunks) /\ pc'[u] = "delete_terms" /\ deleted' = deleted
    BY <1>3 DEF ReadChunks, Goto, tables, TypeOK
  <2> QED
    BY <1>1, <2>1 DEF Reads, Visible, Open
<1>4. CASE ~ReadChunks(u)
  <2>1. read' = read
    BY <1>4 DEF Statement, DeleteChunk, Cascade, DeleteCascaded, CreateChunk, StartDeleteTerms, DeleteTerms,
                StartDeleteStatistics, DeleteStatistics, StartFill, BlockOnTerms, FillChunk, CountTerm
  <2>2. pc'[u] \in {"delete_terms", "terms", "stats", "fill"}
          \/ pc[u] \notin {"delete_terms", "terms", "stats", "fill"}
    BY <1>4 DEF Statement, DeleteChunk, Cascade, DeleteCascaded, CreateChunk, StartDeleteTerms, DeleteTerms,
                StartDeleteStatistics, DeleteStatistics, StartFill, BlockOnTerms, FillChunk, CountTerm,
                StartDelete, Goto, At, TypeOK
  <2> QED
    BY <1>1, <1>2, <2>1, <2>2 DEF Reads, Open
<1> QED
  BY <1>3, <1>4

\* Before the last statements a transaction has inserted nothing, and these leave what
\* it has read.
LEMMA StatementInserts ==
  ASSUME TypeOK, NEW u \in Txs, Good(u), Statement(u)
  PROVE  /\ chunks \subseteq chunks' /\ deleted \subseteq deleted'
         /\ \A r \in termRows \union statRows : r.by = u => read'[u] = read[u]
         /\ \A r \in termRows' \ termRows : \E c \in read[u] :
              FillChunk(u, c) /\ r = [chunk |-> c, by |-> u]
         /\ \A r \in statRows' \ statRows : CountTerm(u)
<1>1. chunks \subseteq chunks' /\ deleted \subseteq deleted'
  BY DEF Statement, DeleteChunk, Cascade, DeleteCascaded, CreateChunk, ReadChunks,
         StartDeleteTerms, DeleteTerms, StartDeleteStatistics, DeleteStatistics, StartFill,
         BlockOnTerms, FillChunk, CountTerm, DeleteOne, tables
<1>2. ASSUME NEW r \in termRows \union statRows, r.by = u PROVE read' = read
  <2>1. ~ReadChunks(u)
    BY <1>2 DEF Good, Owned, ReadChunks, At
  <2> QED
    BY <2>1 DEF Statement, DeleteChunk, Cascade, DeleteCascaded, CreateChunk, StartDeleteTerms,
                DeleteTerms, StartDeleteStatistics, DeleteStatistics, StartFill, BlockOnTerms,
                FillChunk, CountTerm
<1>3. ASSUME NEW r \in termRows' \ termRows
      PROVE  \E c \in read[u] : FillChunk(u, c) /\ r = [chunk |-> c, by |-> u]
  <2>1. PICK c \in read[u] : FillChunk(u, c)
    BY <1>3 DEF Statement, DeleteChunk, Cascade, DeleteCascaded, CreateChunk, ReadChunks,
         StartDeleteTerms, DeleteTerms, StartDeleteStatistics, DeleteStatistics, StartFill,
         BlockOnTerms, CountTerm, tables
  <2>2. r = [chunk |-> c, by |-> u]
    BY <1>3, <2>1 DEF FillChunk
  <2> QED
    BY <2>1, <2>2
<1>4. ASSUME NEW r \in statRows' \ statRows PROVE CountTerm(u)
  BY <1>4 DEF Statement, DeleteChunk, Cascade, DeleteCascaded, CreateChunk, ReadChunks,
         StartDeleteTerms, DeleteTerms, StartDeleteStatistics, DeleteStatistics, StartFill,
         BlockOnTerms, FillChunk, tables
<1> QED
  BY <1>1, <1>2, <1>3, <1>4

LEMMA StatementLocks ==
  ASSUME TypeOK, NEW u \in Txs, Good(u), Durable, Locks(u), Statement(u)
  PROVE  Locks(u)'
<1>1. Open(u) /\ Apart(u)
  BY StatementApart
<1> SUFFICES ASSUME NEW r \in termRows', r.by = u
             PROVE  /\ r.chunk \in chunks' /\ r.chunk \in read'[u]
                    /\ \A v \in Txs \ {u} : <<r.chunk, v>> \notin deleted'
  BY DEF Locks
<1>2. CASE r \in termRows
  <2>1. /\ r.chunk \in chunks /\ r.chunk \in read[u]
        /\ \A v \in Txs \ {u} : <<r.chunk, v>> \notin deleted
        /\ r.chunk \in Row
    BY <1>1, <1>2, TablesType DEF Locks
  <2> QED
    BY <2>1, <1>1, <1>2, StatementInserts DEF Apart
<1>3. CASE r \notin termRows
  <2>1. PICK c \in read[u] : FillChunk(u, c) /\ r.chunk = c
    BY <1>3, StatementInserts
  <2>2. c \in chunks /\ Deleters(u, c) = {} /\ read' = read
    BY <2>1 DEF FillChunk, At, Violated, ToFill
  <2>3. c \in Row
    BY <2>2, TablesType
  <2>4. \A v \in Txs \ {u} : <<c, v>> \notin deleted
    <3>1. ASSUME NEW v \in Txs, <<c, v>> \in deleted PROVE Open(v)
      <4>1. Doomed(v, c)
        BY <3>1 DEF Doomed
      <4> QED
        BY <4>1, <2>3 DEF Durable
    <3> QED
      BY <2>2, <3>1 DEF Deleters
  <2> QED
    BY <2>1, <2>2, <2>3, <2>4, <1>1, StatementInserts DEF Apart
<1> QED
  BY <1>2, <1>3

LEMMA StatementCounts ==
  ASSUME TypeOK, NEW u \in Txs, Good(u), Durable, Counts(u), Statement(u)
  PROVE  Counts(u)'
<1>1. Open(u)
  BY StatementApart
<1> SUFFICES ASSUME NEW r \in statRows', r.by = u
             PROVE  /\ r.counts = read'[u]
                    /\ \A q \in statRows' : q.term = r.term /\ q # r => <<q, u>> \in deleted'
  BY DEF Counts
<1>2. CASE statRows' \subseteq statRows
  BY <1>1, <1>2, StatementInserts DEF Counts
<1>3. CASE ~(statRows' \subseteq statRows)
  <2>1. CountTerm(u)
    BY <1>3, StatementInserts
  <2>2. PICK x \in NextTerm(u) :
          /\ ToCount(u, x) = {}
          /\ statRows' = statRows \union {[term |-> x, counts |-> read[u], by |-> u]}
    BY <2>1 DEF CountTerm
  <2> DEFINE n == [term |-> x, counts |-> read[u], by |-> u]
  <2>3. /\ pc[u] = "fill" /\ deleted' = deleted /\ read' = read /\ ~Violated(u) /\ Unfilled(u) = {}
    BY <2>1 DEF CountTerm, At
  <2>4. Visible(u, StatsRows(x)) = {}
    BY <2>2, <2>3 DEF Violated
  <2>5. \A q \in statRows : q.by = u => q.term # x
    BY <2>2 DEF NextTerm, Uncounted, StatsRows
  <2>6. ASSUME NEW q \in statRows, q.term = x PROVE <<q, u>> \in deleted
    <3>1. q \in StatsRows(x) /\ q.by \in Txs
      BY <2>6, TablesType, RowHasWriter DEF StatsRows
    <3>2. q.by # u /\ ~Open(q.by)
      BY <3>1, <2>2, <2>5, <2>6 DEF ToCount, Inserters
    <3>3. status[q.by] = "committed"
      BY <3>2 DEF Durable
    <3> QED
      BY <3>1, <3>3, <2>4 DEF Visible
  <2>7. n.term = x /\ n.counts = read[u] /\ n.by = u
    OBVIOUS
  <2>8. statRows' = statRows \union {n}
    BY <2>2
  <2> HIDE DEF n
  <2>9. CASE r = n
    BY <2>9, <2>3, <2>6, <2>7, <2>8
  <2>10. CASE r # n
    <3>1. r \in statRows /\ r.term # x
      BY <2>10, <2>8, <2>5
    <3> QED
      BY <3>1, <1>1, <2>3, <2>7, <2>8 DEF Counts
  <2> QED
    BY <2>9, <2>10
<1> QED
  BY <1>2, <1>3

LEMMA StatementSweeps ==
  ASSUME TypeOK, TypeOK', NEW u \in Txs, Good(u), Sweeps(u), Statement(u)
  PROVE  Sweeps(u)'
<1>1. Committed(statRows)' = Committed(statRows)
  BY StatementApart, ApartCommitted
<1>2. /\ Committed(statRows) \subseteq statRows
      /\ \A r \in Committed(statRows) : r \in StatRow /\ r.counts \subseteq Chunk
  BY TablesType DEF Committed, TypeOK
<1>3. CASE StartDeleteStatistics(u)
  <2>1. todo'[u] = Visible(u, statRows) /\ deleted' = deleted
    BY <1>3 DEF StartDeleteStatistics, StartDelete, tables, TypeOK
  <2>2. \A r \in Committed(statRows) : Doomed(u, r)'
    BY <2>1 DEF Committed, Visible, Doomed
  <2> QED
    BY <1>1, <2>2 DEF Sweeps
<1>4. CASE DeleteStatistics(u) \/ StartFill(u) \/ CountTerm(u)
           \/ (\E c \in read[u] : BlockOnTerms(u, c) \/ FillChunk(u, c))
  <2>1. pc[u] \in {"stats", "fill"}
    BY <1>4 DEF DeleteStatistics, StartFill, CountTerm, BlockOnTerms, FillChunk, At
  <2>2. ASSUME NEW r \in Committed(statRows) PROVE Doomed(u, r)' <=> Doomed(u, r)
    <3>1. CASE DeleteStatistics(u)
      <4>1. PICK q \in todo[u] :
              /\ deleted' = IF q \in chunks \union termRows \union statRows
                            THEN deleted \union {<<q, u>>} ELSE deleted
              /\ todo' = [todo EXCEPT ![u] = @ \ {q}]
        BY <3>1 DEF DeleteStatistics, DeleteOne
      <4>2. todo'[u] = todo[u] \ {q}
        BY <4>1 DEF TypeOK
      <4> QED
        BY <1>2, <4>1, <4>2 DEF Doomed
    <3>2. CASE StartFill(u) \/ CountTerm(u) \/ (\E c \in read[u] : BlockOnTerms(u, c))
      BY <3>2 DEF StartFill, CountTerm, BlockOnTerms, tables, Doomed
    <3>3. CASE \E c \in read[u] : FillChunk(u, c)
      <4>1. PICK c \in read[u] : FillChunk(u, c)
        BY <3>3
      <4>2. r \notin Visible(u, TermsRows(c))
        BY <1>2, TablesDiffer DEF Visible, TermsRows, TypeOK
      <4> QED
        BY <4>1, <4>2 DEF FillChunk, Doomed
    <3> QED
      BY <1>4, <3>1, <3>2, <3>3
  <2>3. \A c \in Chunk : <<c, u>> \in deleted' => <<c, u>> \in deleted
    BY <2>1, StatementDeletes DEF Deletes, Row
  <2> QED
    BY <1>1, <1>2, <2>1, <2>2, <2>3 DEF Sweeps, Termed
<1>5. CASE DeleteChunk(u) \/ Cascade(u) \/ DeleteCascaded(u) \/ CreateChunk(u) \/ ReadChunks(u)
           \/ StartDeleteTerms(u) \/ DeleteTerms(u)
  <2>1. pc'[u] \notin {"stats", "fill"}
    BY <1>5 DEF DeleteChunk, Cascade, DeleteCascaded, CreateChunk, ReadChunks, StartDeleteTerms, DeleteTerms,
                StartDelete, Goto, At, TypeOK
  <2> QED
    BY <2>1 DEF Sweeps
<1> QED
  BY <1>3, <1>4, <1>5 DEF Statement

-------------------------------------------------------------------------------
(* A commit *)

\* What has been committed after a commit: what was before and is not deleted, and the
\* rows of the transaction.
LEMMA CommitRows ==
  ASSUME TypeOK, NEW u \in Txs, Good(u), Durable, Commit(u)
  PROVE  /\ \A r \in statRows : r \in Committed(statRows)' <=>
              r.by = u \/ (r \in Committed(statRows) /\ <<r, u>> \notin deleted)
         /\ Committed(statRows)' \subseteq statRows
         /\ \A c \in chunks : c \in LiveChunks' <=>
              c.by = u \/ (c \in LiveChunks /\ <<c, u>> \notin deleted)
         /\ \A r \in Row : r.by = u => status[r.by] = "open" /\ <<r, u>> \notin deleted
<1>1. \A r \in Row : r.by = u => <<r, u>> \notin deleted
  BY DEF Good, Owned
<1>2. status[u] = "open"
  BY DEF Commit, At, Open
<1> QED
  BY <1>1, <1>2, CommitPublishes, TablesType DEF Visible, Committed, LiveChunks

\* Every chunk with terms a transaction has read is there when it commits, and no one
\* deletes it: the terms it has inserted for the chunk keep it.
LEMMA CommitHolds ==
  ASSUME TypeOK, NEW u \in Txs, Good(u), Durable, Own(u), Commit(u), NEW c \in Termed(read[u])
  PROVE  c \in LiveChunks' /\ \A v \in Txs : <<c, v>> \notin deleted
<1>1. Open(u) /\ Unfilled(u) = {}
  BY DEF Commit, At
<1>2. PICK r \in termRows : r.chunk = c /\ r.by = u
  BY <1>1 DEF Unfilled, TermsRows
<1>3. c \in chunks /\ \A v \in Txs \ {u} : <<c, v>> \notin deleted
  BY <1>1, <1>2 DEF Own, Locks
<1>4. <<c, u>> \notin deleted /\ (c.by = u \/ status[c.by] = "committed")
  BY DEF Own, Reads, Termed
<1> QED
  BY <1>3, <1>4, CommitRows DEF LiveChunks, Committed

LEMMA CommitDurable ==
  ASSUME TypeOK, NEW u \in Txs, Durable, Commit(u)
  PROVE  Durable'
<1>1. /\ chunks' \subseteq chunks /\ termRows' \subseteq termRows /\ statRows' \subseteq statRows
      /\ deleted' \subseteq deleted /\ \A r \in Row : <<r, u>> \notin deleted'
  BY DEF Commit
<1>2. /\ status'[u] = "committed" /\ todo'[u] = {} /\ pc'[u] = "begin"
      /\ \A t \in Txs \ {u} : status'[t] = status[t] /\ todo'[t] = todo[t] /\ pc'[t] = pc[t]
  BY DEF Commit, Close, TypeOK
<1>3. /\ chunks \subseteq Row /\ termRows \subseteq Row /\ statRows \subseteq Row
      /\ \A r \in Row : r.by \in Txs
  BY TablesType, RowHasWriter
<1>4. \A r \in chunks' \union termRows' \union statRows' : Open(r.by)' \/ status'[r.by] = "committed"
  BY <1>1, <1>2, <1>3 DEF Durable, Open
<1>5. ASSUME NEW t \in Txs, NEW r \in Row, Doomed(t, r)'
      PROVE  Open(t)' /\ status'[r.by] = "committed"
  <2>1. t # u /\ Doomed(t, r)
    BY <1>1, <1>2, <1>5 DEF Doomed
  <2> QED
    BY <2>1, <1>2, <1>3 DEF Durable, Open
<1>6. \A t \in Txs : pc'[t] = "fill" => todo'[t] = {}
  BY <1>2 DEF Durable
<1> QED
  BY <1>4, <1>5, <1>6 DEF Durable

LEMMA CommitOwn ==
  ASSUME TypeOK, NEW u \in Txs, NEW t \in Txs, \A v \in Txs : Good(v), Durable,
         \A v \in Txs : Own(v), Commit(u)
  PROVE  Own(t)'
<1>1. /\ chunks' = chunks \ Gone(u) /\ termRows' \subseteq termRows /\ statRows' \subseteq statRows
      /\ deleted' = {d \in deleted : d[2] # u}
  BY DEF Commit
<1>2. /\ status'[u] = "committed" /\ read'[u] = {} /\ pc'[u] = "begin"
      /\ \A v \in Txs \ {u} : /\ status'[v] = status[v] /\ todo'[v] = todo[v] /\ pc'[v] = pc[v]
                              /\ read'[v] = read[v]
  BY DEF Commit, Close, TypeOK
<1>3. CASE t = u
  BY <1>2, <1>3 DEF Own, Reads, Locks, Counts, Sweeps, Open
<1>4. CASE t # u
  <2>1. /\ status'[t] = status[t] /\ todo'[t] = todo[t] /\ pc'[t] = pc[t] /\ read'[t] = read[t]
        /\ Open(t)' = Open(t)
    BY <1>2, <1>4 DEF Open
  <2>2. \A r : <<r, t>> \in deleted' <=> <<r, t>> \in deleted
    BY <1>1, <1>4
  <2>3. Reads(t)'
    <3>1. \A c \in read[t] : c.by \in Txs
      BY RowHasWriter DEF TypeOK, Row
    <3>2. \A c \in read[t] : status[c.by] = "committed" => status'[c.by] = "committed"
      BY <3>1, <1>2
    <3> QED
      BY <2>1, <2>2, <3>2 DEF Own, Reads
  <2>4. Locks(t)'
    <3> SUFFICES ASSUME Open(t), NEW r \in termRows', r.by = t
                 PROVE  /\ r.chunk \in chunks' /\ r.chunk \in read[t]
                        /\ \A v \in Txs \ {t} : <<r.chunk, v>> \notin deleted'
      BY <2>1 DEF Locks
    <3>1. /\ r.chunk \in chunks /\ r.chunk \in read[t] /\ r.chunk \in Row
          /\ \A v \in Txs \ {t} : <<r.chunk, v>> \notin deleted
      BY <1>1, TablesType DEF Own, Locks
    <3>2. r.chunk \notin Gone(u)
      <4>1. <<r.chunk, u>> \notin deleted
        BY <3>1, <1>4
      <4>2. \A e \in deleted : e[2] = u => e = <<e[1], u>>
        BY DEF TypeOK
      <4> QED
        BY <4>1, <4>2 DEF Gone
    <3> QED
      BY <1>1, <3>1, <3>2
  <2>5. Counts(t)'
    BY <1>1, <2>1, <2>2 DEF Own, Counts
  <2>6. Sweeps(t)'
    <3> SUFFICES ASSUME pc[t] \in {"stats", "fill"}, NEW r \in Committed(statRows)'
                 PROVE  /\ \A c \in Termed(r.counts) : <<c, t>> \in deleted => Doomed(t, r)
                        /\ \A q \in Committed(statRows)' :
                             q.by = r.by => (Doomed(t, r) <=> Doomed(t, q))
      BY <2>1, <2>2 DEF Sweeps, Doomed
    <3>1. /\ \A q \in Committed(statRows)' :
               q \in statRows /\ q \in Row /\ (q.by = u \/ q \in Committed(statRows))
          /\ \A q \in statRows : q.by = u => status[q.by] = "open" /\ q \notin Committed(statRows)
      BY CommitRows, TablesType DEF Committed
    <3>2. ASSUME NEW q \in Committed(statRows)', q.by = u PROVE ~Doomed(t, q)
      BY <3>1, <3>2 DEF Durable
    <3>3. CASE r.by = u
      <4>1. r.counts = read[u]
        <5>1. Open(u)
          BY DEF Commit, At
        <5> QED
          BY <5>1, <3>1, <3>3 DEF Own, Counts
      <4>2. \A c \in Termed(r.counts) : <<c, t>> \notin deleted
        BY <4>1, CommitHolds
      <4> QED
        BY <4>2, <3>2, <3>3
    <3>4. CASE r.by # u
      <4>1. r \in Committed(statRows)
        BY <3>1, <3>4
      <4>2. \A q \in Committed(statRows)' : q.by = r.by => q \in Committed(statRows)
        BY <3>1, <3>4
      <4> QED
        BY <4>1, <4>2 DEF Own, Sweeps
    <3> QED
      BY <3>3, <3>4
  <2> QED
    BY <2>3, <2>4, <2>5, <2>6 DEF Own
<1> QED
  BY <1>3, <1>4

LEMMA CommitStatistics ==
  ASSUME TypeOK, NEW u \in Txs, Good(u), Durable, Own(u), StatisticsInv, Commit(u)
  PROVE  StatisticsInv'
<1>1. /\ Open(u) /\ pc[u] = "fill" /\ Uncounted(u) = {} /\ status'[u] = "committed"
  BY DEF Commit, At, TypeOK
<1>2. /\ \A r \in Committed(statRows)' : r \in statRows /\ r \in Row
      /\ \A r \in Committed(statRows)' : r.by # u => r \in Committed(statRows) /\ <<r, u>> \notin deleted
      /\ \A r \in statRows : r.by = u => r \in Committed(statRows)' /\ r \notin Committed(statRows)
  BY CommitRows, TablesType DEF Committed
<1>3. \A r \in Committed(statRows)' : r.by = u => r.counts = read[u]
  BY <1>1, <1>2 DEF Own, Counts
<1>4. todo[u] = {}
  BY <1>1 DEF Durable
<1>5. ASSUME NEW r \in Committed(statRows)' PROVE Termed(r.counts) \subseteq LiveChunks'
  <2>1. CASE r.by = u
    BY <2>1, <1>3, CommitHolds
  <2>2. CASE r.by # u
    <3>1. r \in Committed(statRows) /\ ~Doomed(u, r)
      BY <2>2, <1>2, <1>4 DEF Doomed
    <3>2. \A c \in Termed(r.counts) : <<c, u>> \notin deleted /\ c \in LiveChunks
      BY <3>1, <1>1 DEF Own, Sweeps, StatisticsInv
    <3> QED
      BY <3>2, CommitRows DEF LiveChunks, Committed
  <2> QED
    BY <2>1, <2>2
<1>6. ASSUME NEW r \in Committed(statRows)', NEW c \in r.counts, NEW x \in TermsOf[c.doc]
      PROVE  \E q \in Committed(statRows)' : q.term = x /\ q.by = r.by /\ q.counts = r.counts
  <2>1. CASE r.by = u
    <3>1. c \in read[u]
      BY <1>3, <2>1
    <3>2. PICK q \in statRows : q.term = x /\ q.by = u
      BY <1>1, <3>1 DEF Uncounted, StatsRows
    <3> QED
      BY <3>2, <2>1, <1>2, <1>3
  <2>2. CASE r.by # u
    <3>1. r \in Committed(statRows) /\ ~Doomed(u, r)
      BY <2>2, <1>2, <1>4 DEF Doomed
    <3>2. PICK q \in Committed(statRows) : q.term = x /\ q.by = r.by /\ q.counts = r.counts
      BY <3>1 DEF StatisticsInv
    <3>3. ~Doomed(u, q)
      BY <1>1, <3>1, <3>2 DEF Own, Sweeps
    <3>4. q \in Committed(statRows)'
      BY <3>2, <3>3, CommitRows DEF Doomed, Committed
    <3> QED
      BY <3>2, <3>4
  <2> QED
    BY <2>1, <2>2
<1>7. ASSUME NEW r \in Committed(statRows)', NEW q \in Committed(statRows)', r.term = q.term, r # q
      PROVE  FALSE
  <2>1. CASE r.by = u
    <3>1. <<q, u>> \in deleted
      BY <1>1, <1>2, <1>7, <2>1 DEF Own, Counts
    <3>2. q.by # u
      BY <3>1, <1>2, CommitRows
    <3> QED
      BY <3>1, <3>2, <1>2
  <2>2. CASE q.by = u
    <3>1. <<r, u>> \in deleted
      BY <1>1, <1>2, <1>7, <2>2 DEF Own, Counts
    <3>2. r.by # u
      BY <3>1, <1>2, CommitRows
    <3> QED
      BY <3>1, <3>2, <1>2
  <2>3. CASE r.by # u /\ q.by # u
    BY <2>3, <1>2, <1>7 DEF StatisticsInv
  <2> QED
    BY <2>1, <2>2, <2>3
<1> QED
  BY <1>5, <1>6, <1>7 DEF StatisticsInv

-------------------------------------------------------------------------------
(* The second invariant *)

LEMMA InitCountInv == Init => CountInv
<1> SUFFICES ASSUME Init PROVE CountInv
  OBVIOUS
<1>1. IsFiniteSet(chunks)
  BY FS_EmptySet DEF Init
<1>2. Durable /\ StatisticsInv
  BY DEF Init, Durable, StatisticsInv, Committed, Doomed
<1>3. \A t \in Txs : Own(t)
  BY DEF Init, Own, Reads, Locks, Counts, Sweeps, Committed
<1> QED
  BY <1>1, <1>2, <1>3 DEF CountInv

\* A step creates at most one chunk.
LEMMA ChunksFinite ==
  ASSUME IsFiniteSet(chunks), [Next]_vars
  PROVE  IsFiniteSet(chunks')
<1>1. \E c : chunks' \subseteq chunks \union {c}
  BY DEF Next, Step, vars, tables, BeginIngestion, BeginRefresh, DeleteChunk, Cascade, DeleteCascaded,
         CreateChunk, ReadChunks, StartDeleteTerms, DeleteTerms, StartDeleteStatistics,
         DeleteStatistics, StartFill, BlockOnTerms, FillChunk, CountTerm, Commit,
         AbortByDatabase, AbortByError, Rollback
<1> QED
  BY <1>1, FS_AddElement, FS_Subset

\* A step of u that is no commit leaves alone what is said of the others.
LEMMA OthersOwn ==
  ASSUME TypeOK, TypeOK', NEW u \in Txs, Good(u), NEW t \in Txs \ {u}, Own(t), Durable,
         Begin(u) \/ Statement(u) \/ Abort(u)
  PROVE  Own(t)'
<1>1. Apart(u)
  BY BeginApart, StatementApart, AbortApart
<1>2. \A r \in Chunk : Deletes(u, r) => Inserters(u, TermsRows(r)) = {}
  <2>1. CASE Statement(u)
    BY <2>1, StatementDeletes DEF Row
  <2>2. CASE Begin(u)
    BY <2>2 DEF Begin, BeginIngestion, BeginRefresh, tables, Deletes
  <2>3. CASE Abort(u)
    BY <2>3 DEF Abort, AbortByDatabase, AbortByError, Rollback, Deletes
  <2> QED
    BY <2>1, <2>2, <2>3
<1>3. \A r \in statRows' \ statRows : Inserters(u, StatsRows(r.term)) = {}
  <2>1. CASE Statement(u)
    <3> SUFFICES ASSUME NEW r \in statRows' \ statRows
                 PROVE  Inserters(u, StatsRows(r.term)) = {}
      OBVIOUS
    <3>1. CountTerm(u)
      BY <2>1, StatementInserts
    <3>2. PICK x \in NextTerm(u) :
            /\ ToCount(u, x) = {}
            /\ statRows' = statRows \union {[term |-> x, counts |-> read[u], by |-> u]}
      BY <3>1 DEF CountTerm
    <3>3. r.term = x
      BY <3>2
    <3> QED
      BY <3>2, <3>3 DEF ToCount
  <2>2. CASE Begin(u)
    BY <2>2 DEF Begin, BeginIngestion, BeginRefresh, tables
  <2>3. CASE Abort(u)
    BY <2>3 DEF Abort, AbortByDatabase, AbortByError, Rollback
  <2> QED
    BY <2>1, <2>2, <2>3
<1> QED
  BY <1>1, <1>2, <1>3, ApartReads, ApartLocks, ApartCounts, ApartSweeps DEF Own

LEMMA NextCountInv == IInv /\ CountInv /\ [Next]_vars => CountInv'
<1> SUFFICES ASSUME IInv, CountInv, [Next]_vars PROVE CountInv'
  OBVIOUS
<1>1. TypeOK /\ TypeOK' /\ \A t \in Txs : Good(t)
  BY NextIInv DEF IInv, IGood
<1>2. IsFiniteSet(chunks')
  BY ChunksFinite DEF CountInv
<1>3. Durable /\ StatisticsInv /\ \A t \in Txs : Own(t)
  BY DEF CountInv
<1>4. CASE UNCHANGED vars
  <2>1. Durable' /\ StatisticsInv'
    BY <1>3, <1>4 DEF vars, Durable, StatisticsInv, Committed, LiveChunks, Doomed, Open
  <2>2. \A t \in Txs : Own(t)'
    BY <1>3, <1>4 DEF vars, Own, Reads, Locks, Counts, Sweeps, Committed, Doomed, Open
  <2> QED
    BY <1>2, <2>1, <2>2 DEF CountInv
<1>5. SUFFICES ASSUME NEW u \in Txs, Begin(u) \/ Statement(u) \/ Abort(u) \/ Commit(u)
               PROVE  Durable' /\ StatisticsInv' /\ \A t \in Txs : Own(t)'
  BY <1>2, <1>4, NextCases DEF CountInv
<1>6. CASE Commit(u)
  BY <1>1, <1>3, <1>6, CommitDurable, CommitOwn, CommitStatistics
<1>7. CASE Begin(u) \/ Statement(u) \/ Abort(u)
  <2>1. StatisticsInv'
    BY <1>1, <1>3, <1>7, BeginApart, StatementApart, AbortApart, ApartStatistics
  <2>2. Durable' /\ Own(u)'
    <3>1. CASE Statement(u)
      BY <1>1, <1>3, <3>1, StatementDurable, StatementReads, StatementLocks, StatementCounts, StatementSweeps
      DEF Own
    <3> QED
      BY <1>1, <1>3, <1>7, <3>1, BeginOwn, AbortOwn
  <2>3. \A t \in Txs \ {u} : Own(t)'
    BY <1>1, <1>3, <1>7, OthersOwn
  <2> QED
    BY <2>1, <2>2, <2>3
<1> QED
  BY <1>5, <1>6, <1>7

-------------------------------------------------------------------------------
(* The third invariant *)

\* One's own document, and the chunks one deletes, through the statements of an ingestion.
LEMMA StatementDooms ==
  ASSUME TypeOK, NEW u \in Txs, Good(u), Ingests(u), Statement(u)
  PROVE  /\ pc'[u] # "replace" => \A c \in Chunk : c \notin todo'[u]
         /\ \A c \in LiveChunks : Doomed(u, c)' <=> Doomed(u, c)
<1>1. /\ Visible(u, termRows) \subseteq TermRow /\ Visible(u, statRows) \subseteq StatRow
      /\ \A c \in LiveChunks : c \in chunks /\ c \in Chunk
  BY DEF Visible, TypeOK, LiveChunks, Committed
<1>2. CASE DeleteChunk(u) \/ DeleteCascaded(u) \/ DeleteTerms(u) \/ DeleteStatistics(u)
  <2>1. DeleteOne(u) /\ pc' = pc
    BY <1>2 DEF DeleteChunk, DeleteCascaded, DeleteTerms, DeleteStatistics
  <2>2. PICK q \in todo[u] :
          /\ deleted' = IF q \in chunks \union termRows \union statRows
                        THEN deleted \union {<<q, u>>} ELSE deleted
          /\ todo' = [todo EXCEPT ![u] = @ \ {q}]
    BY <2>1 DEF DeleteOne
  <2>3. todo'[u] = todo[u] \ {q}
    BY <2>2 DEF TypeOK
  <2>4. \A c \in LiveChunks : <<c, u>> \in deleted' <=> <<c, u>> \in deleted \/ c = q
    BY <1>1, <2>2
  <2> QED
    BY <2>1, <2>2, <2>3, <2>4 DEF Ingests, Doomed
<1>3. CASE Cascade(u) \/ StartDeleteTerms(u) \/ StartDeleteStatistics(u)
  <2>1. /\ todo'[u] \subseteq Visible(u, termRows) \union Visible(u, statRows)
        /\ deleted' = deleted
    BY <1>3 DEF Cascade, StartDeleteTerms, StartDeleteStatistics, StartDelete, tables, TypeOK
  <2>2. \A c \in Chunk : c \notin todo'[u]
    BY <1>1, <2>1, TablesDiffer
  <2>3. \A c \in Chunk : c \notin todo[u]
    BY <1>3 DEF Cascade, StartDeleteTerms, StartDeleteStatistics, At, Ingests
  <2> QED
    BY <1>1, <2>1, <2>2, <2>3 DEF Doomed
<1>4. CASE \E c \in read[u] : FillChunk(u, c)
  <2>1. PICK c \in read[u] : FillChunk(u, c)
    BY <1>4
  <2>2. \A k \in LiveChunks : k \notin Visible(u, TermsRows(c))
    BY <1>1, TablesDiffer DEF Visible, TermsRows, TypeOK
  <2> QED
    BY <2>1, <2>2 DEF FillChunk, At, Ingests, Doomed
<1>5. CASE CreateChunk(u) \/ ReadChunks(u) \/ StartFill(u) \/ (\E c \in read[u] : BlockOnTerms(u, c))
           \/ CountTerm(u)
  <2>1. todo' = todo /\ deleted' = deleted /\ pc[u] # "replace"
    BY <1>5 DEF CreateChunk, ReadChunks, StartFill, BlockOnTerms, CountTerm, At, tables
  <2> QED
    BY <2>1 DEF Ingests, Doomed
<1> QED
  BY <1>2, <1>3, <1>4, <1>5 DEF Statement

\* The chunk of an ingestion is created once its document's old one is gone.
LEMMA StatementCreates ==
  ASSUME TypeOK, NEW u \in Txs, Statement(u)
  PROVE  \/ CreateChunk(u)
         \/ chunks' = chunks /\ (pc'[u] \in Created <=> pc[u] \in Created)
BY DEF Statement, DeleteChunk, Cascade, DeleteCascaded, ReadChunks, StartDeleteTerms, DeleteTerms,
       StartDeleteStatistics, DeleteStatistics, StartFill, BlockOnTerms, FillChunk, CountTerm,
       StartDelete, Goto, At, TypeOK, Created, tables

LEMMA StatementIngests ==
  ASSUME TypeOK, TypeOK', NEW u \in Txs, Good(u), Ingests(u), Statement(u)
  PROVE  Ingests(u)'
<1>1. Open(u) /\ doc' = doc /\ status' = status /\ LiveChunks' = LiveChunks
  BY StatementApart, ApartCommitted DEF LiveChunks
<1>2. /\ \A c \in chunks' : c.by = u => c.doc = doc[u] /\ pc'[u] \in Created
      /\ pc'[u] \in Created /\ doc[u] \in Docs => [doc |-> doc[u], by |-> u] \in chunks'
  <2>1. CASE CreateChunk(u)
    <3>1. chunks' = chunks \union {[doc |-> doc[u], by |-> u]} /\ pc'[u] \in Created
      BY <2>1 DEF CreateChunk, Goto, Created, TypeOK
    <3> QED
      BY <1>1, <3>1 DEF Ingests
  <2>2. CASE chunks' = chunks /\ (pc'[u] \in Created <=> pc[u] \in Created)
    BY <1>1, <2>2 DEF Ingests
  <2> QED
    BY <2>1, <2>2, StatementCreates
<1>3. \A c \in LiveChunks : Doomed(u, c)' <=> c.doc = doc[u]
  BY <1>1, StatementDooms DEF Ingests
<1> QED
  BY <1>1, <1>2, <1>3, StatementDooms DEF Ingests

\* A transaction sees one chunk of a document: it has deleted the one it has replaced.
LEMMA StatementSees ==
  ASSUME TypeOK, TypeOK', NEW u \in Txs, Good(u), OneEach(LiveChunks), Ingests(u), Sees(u),
         Statement(u)
  PROVE  Sees(u)'
<1>1. LiveChunks' = LiveChunks /\ chunks \subseteq chunks' /\ Open(u)
  BY StatementApart, ApartCommitted, StatementInserts DEF LiveChunks
<1>2. CASE ReadChunks(u)
  <2>1. /\ read'[u] = Visible(u, chunks) /\ pc[u] = "read" /\ chunks' = chunks
    BY <1>2 DEF ReadChunks, At, tables, TypeOK
  <2>2. ASSUME NEW c \in Visible(u, chunks)
        PROVE  /\ c \in chunks /\ c \in Chunk
               /\ c.by = u => c.doc = doc[u]
               /\ c.by # u => c \in LiveChunks /\ c.doc # doc[u]
    <3>1. c \in chunks /\ c \in Chunk /\ <<c, u>> \notin deleted
          /\ (c.by = u \/ status[c.by] = "committed")
      BY DEF Visible, TypeOK
    <3>2. c \notin todo[u]
      BY <2>1, <3>1 DEF Ingests
    <3> QED
      BY <1>1, <3>1, <3>2 DEF Ingests, Doomed, LiveChunks, Committed
  <2>3. ASSUME NEW c \in Visible(u, chunks), NEW k \in Visible(u, chunks), c.doc = k.doc
        PROVE  c = k
    <3>1. CASE c.by = u
      BY <2>2, <2>3, <3>1 DEF Chunk
    <3>2. CASE c.by # u
      BY <2>2, <2>3, <3>2 DEF OneEach
    <3> QED
      BY <3>1, <3>2
  <2> QED
    BY <1>1, <2>1, <2>2, <2>3 DEF Sees, OneEach, Documents
<1>3. CASE ~ReadChunks(u)
  <2>1. read' = read
    BY <1>3 DEF Statement, DeleteChunk, Cascade, DeleteCascaded, CreateChunk, StartDeleteTerms, DeleteTerms,
                StartDeleteStatistics, DeleteStatistics, StartFill, BlockOnTerms, FillChunk, CountTerm
  <2> QED
    BY <1>1, <2>1 DEF Sees, Documents
<1> QED
  BY <1>2, <1>3

LEMMA BeginIngests ==
  ASSUME TypeOK, TypeOK', NEW u \in Txs, Good(u), Durable, Own(u), Begin(u)
  PROVE  Ingests(u)' /\ Sees(u)'
<1>1. /\ UNCHANGED tables /\ read' = read /\ status[u] = "new" /\ ~Open(u)
  BY DEF Begin, BeginIngestion, BeginRefresh, StartTransaction, Open
<1>2. /\ \A r \in Row : ~Doomed(u, r)
      /\ \A c \in chunks : c.by # u
      /\ read[u] = {}
      /\ \A c \in LiveChunks : c \in chunks /\ c \in Chunk /\ c \in Row /\ c.doc \in Docs
      /\ LiveChunks' = LiveChunks
  <2>1. LiveChunks' = LiveChunks
    BY BeginApart, ApartCommitted DEF LiveChunks
  <2> QED
    BY <1>1, <2>1 DEF Durable, Good, Owned, Own, Reads, LiveChunks, Committed, TypeOK, Row, Chunk
<1>3. CASE \E d \in Docs : BeginIngestion(u, d)
  <2>1. PICK d \in Docs : BeginIngestion(u, d)
    BY <1>3
  <2>2. /\ pc'[u] = "replace" /\ doc'[u] = d
        /\ todo'[u] = {c \in Visible(u, chunks) : c.doc = d}
    BY <2>1 DEF BeginIngestion, StartTransaction, StartDelete, Goto, TypeOK
  <2>3. \A c \in LiveChunks : Doomed(u, c)' <=> c.doc = d
    BY <1>1, <1>2, <2>2 DEF Doomed, Visible, LiveChunks, Committed, tables
  <2> QED
    BY <1>1, <1>2, <2>2, <2>3 DEF Ingests, Sees, OneEach, Created, tables
<1>4. CASE BeginRefresh(u)
  <2>1. pc'[u] = "read" /\ doc'[u] = NoDoc /\ todo' = todo
    BY <1>4 DEF BeginRefresh, StartTransaction, Goto, TypeOK
  <2>2. \A c \in Chunk : c \notin todo'[u]
    BY <1>2, <2>1 DEF Doomed, Row
  <2>3. \A c \in LiveChunks : ~Doomed(u, c)' /\ c.doc # NoDoc
    BY <1>1, <1>2, <2>1, TermsAssumption DEF Doomed, tables
  <2> QED
    BY <1>1, <1>2, <2>1, <2>2, <2>3, TermsAssumption DEF Ingests, Sees, OneEach, tables
<1> QED
  BY <1>3, <1>4 DEF Begin

LEMMA AbortIngests ==
  ASSUME TypeOK, NEW u \in Txs, Abort(u)
  PROVE  Ingests(u)' /\ Sees(u)'
<1>1. Rollback(u) /\ Close(u)
  BY DEF Abort, AbortByDatabase, AbortByError
<1>2. status'[u] = "aborted" /\ todo'[u] = {} /\ read'[u] = {}
  BY <1>1 DEF Rollback, Close, TypeOK
<1> QED
  BY <1>2 DEF Ingests, Sees, OneEach, Open

\* A step of u that is no commit leaves to the others what they ingest and see.
LEMMA ApartIngests ==
  ASSUME TypeOK, TypeOK', NEW u \in Txs, NEW t \in Txs \ {u}, Apart(u), Ingests(t), Sees(t)
  PROVE  Ingests(t)' /\ Sees(t)'
<1>1. /\ pc'[t] = pc[t] /\ todo'[t] = todo[t] /\ doc'[t] = doc[t] /\ read'[t] = read[t]
      /\ Open(t)' = Open(t) /\ LiveChunks' = LiveChunks
  BY ApartCommitted DEF Apart, Open, LiveChunks
<1>2. \A c \in LiveChunks : Doomed(t, c)' <=> Doomed(t, c)
  <2>1. LiveChunks \subseteq Row
    BY TablesType DEF LiveChunks, Committed
  <2> QED
    BY <2>1 DEF Doomed, Apart
<1>3. \A c \in Row : c.by = t => (c \in chunks' <=> c \in chunks)
  BY DEF Apart
<1>4. chunks' \subseteq Row /\ read[t] \subseteq Row
  BY DEF TypeOK, Row
<1>5. Ingests(t)'
  <2>1. doc[t] \in Docs => [doc |-> doc[t], by |-> t] \in Row
    BY DEF Row, Chunk
  <2> QED
    BY <1>1, <1>2, <1>3, <1>4, <2>1 DEF Ingests
<1>6. Sees(t)'
  BY <1>1, <1>3, <1>4 DEF Sees, Documents
<1> QED
  BY <1>5, <1>6

\* An ingestion that commits has a chunk for the document whose chunk it has deleted.
LEMMA CommitDocuments ==
  ASSUME TypeOK, NEW u \in Txs, Good(u), Durable, Ingests(u), OneEach(LiveChunks), Commit(u)
  PROVE  /\ \A c \in LiveChunks' : \/ c.by = u /\ c.doc = doc[u] /\ c \in chunks
                                   \/ c \in LiveChunks /\ c.doc # doc[u]
         /\ Documents(LiveChunks) \subseteq Documents(LiveChunks')
         /\ OneEach(LiveChunks')
<1>1. Open(u) /\ pc[u] = "fill" /\ todo[u] = {} /\ pc[u] \in Created
  BY DEF Commit, At, Durable, Created
<1>2. /\ \A c \in chunks : c \in LiveChunks' <=>
           c.by = u \/ (c \in LiveChunks /\ <<c, u>> \notin deleted)
      /\ LiveChunks' \subseteq chunks /\ LiveChunks \subseteq chunks /\ chunks \subseteq Chunk
  BY CommitRows DEF LiveChunks, Committed, Commit, TypeOK
<1>3. \A c \in LiveChunks : <<c, u>> \in deleted <=> c.doc = doc[u]
  BY <1>1 DEF Ingests, Doomed
<1>4. \A c \in LiveChunks' : \/ c.by = u /\ c.doc = doc[u] /\ c \in chunks
                             \/ c \in LiveChunks /\ c.doc # doc[u]
  BY <1>1, <1>2, <1>3 DEF Ingests
<1>5. ASSUME NEW c \in LiveChunks PROVE \E k \in LiveChunks' : k.doc = c.doc
  <2>1. CASE c.doc # doc[u]
    BY <2>1, <1>2, <1>3
  <2>2. CASE c.doc = doc[u]
    <3>1. doc[u] \in Docs
      BY <2>2, <1>2 DEF Chunk
    <3>2. [doc |-> doc[u], by |-> u] \in chunks
      BY <3>1, <1>1 DEF Ingests
    <3> QED
      BY <3>2, <2>2, <1>2
  <2> QED
    BY <2>1, <2>2
<1>6. ASSUME NEW c \in LiveChunks', NEW k \in LiveChunks', c.doc = k.doc PROVE c = k
  <2>1. CASE c.doc = doc[u]
    <3>1. c.by = u /\ k.by = u /\ c \in Chunk /\ k \in Chunk
      BY <2>1, <1>4, <1>6, <1>2
    <3> QED
      BY <3>1, <1>6 DEF Chunk
  <2>2. CASE c.doc # doc[u]
    BY <2>2, <1>4, <1>6 DEF OneEach
  <2> QED
    BY <2>1, <2>2
<1> QED
  BY <1>4, <1>5, <1>6 DEF Documents, OneEach

LEMMA CommitCovers ==
  ASSUME TypeOK, NEW u \in Txs, Good(u), Durable, Own(u), Ingests(u), Sees(u), Covers,
         OneEach(LiveChunks), Commit(u)
  PROVE  Covers'
<1> SUFFICES ASSUME NEW r \in Committed(statRows)'
             PROVE  OneEach(r.counts) /\ Documents(r.counts) \subseteq Documents(LiveChunks')
  BY DEF Covers
<1>1. Open(u) /\ r \in statRows
  BY CommitRows DEF Commit, At
<1>2. CASE r.by = u
  <2>1. r.counts = read[u]
    BY <1>1, <1>2 DEF Own, Counts
  <2>2. ASSUME NEW c \in read[u] PROVE c.doc \in Documents(LiveChunks')
    <3>1. CASE c.by = u /\ c \in chunks
      BY <3>1, CommitRows DEF Documents
    <3>2. CASE c.doc \in Documents(LiveChunks)
      BY <3>2, CommitDocuments
    <3> QED
      BY <3>1, <3>2 DEF Sees
  <2>3. Documents(read[u]) \subseteq Documents(LiveChunks')
    BY <2>2 DEF Documents
  <2> QED
    BY <2>1, <2>3 DEF Sees
<1>3. CASE r.by # u
  <2>1. r \in Committed(statRows)
    BY <1>1, <1>3, CommitRows
  <2> QED
    BY <2>1, CommitDocuments DEF Covers
<1> QED
  BY <1>2, <1>3

LEMMA CommitIngests ==
  ASSUME TypeOK, NEW u \in Txs, NEW t \in Txs, Good(u), Durable, Own(t), DocumentsInv, Commit(u)
  PROVE  Ingests(t)' /\ Sees(t)'
<1>1. /\ chunks' = chunks \ Gone(u) /\ deleted' = {d \in deleted : d[2] # u}
      /\ Open(u)
  BY DEF Commit, At
<1>2. /\ status'[u] = "committed" /\ read'[u] = {} /\ todo'[u] = {}
      /\ \A v \in Txs \ {u} : /\ status'[v] = status[v] /\ todo'[v] = todo[v] /\ pc'[v] = pc[v]
                              /\ read'[v] = read[v] /\ doc'[v] = doc[v]
  BY DEF Commit, Close, TypeOK
<1>3. CASE t = u
  BY <1>2, <1>3 DEF Ingests, Sees, OneEach, Open
<1>4. CASE t # u
  <2>1. /\ todo'[t] = todo[t] /\ pc'[t] = pc[t] /\ read'[t] = read[t] /\ doc'[t] = doc[t]
        /\ Open(t)' = Open(t)
        /\ \A r : <<r, t>> \in deleted' <=> <<r, t>> \in deleted
    BY <1>1, <1>2, <1>4 DEF Open
  <2>2. Ingests(t) /\ Sees(t) /\ Ingests(u) /\ OneEach(LiveChunks)
    BY DEF DocumentsInv
  <2>3. \A r : Doomed(t, r)' <=> Doomed(t, r)
    BY <2>1 DEF Doomed
  <2>4. ASSUME Open(t), NEW c \in LiveChunks' PROVE Doomed(t, c) <=> c.doc = doc[t]
    <3>1. CASE c \in LiveChunks
      BY <2>2, <2>4, <3>1 DEF Ingests
    <3>2. CASE c.by = u /\ c.doc = doc[u] /\ c \in chunks
      <4>1. c \in Row /\ c.doc \in Docs /\ status[u] # "committed"
        BY <1>1, <3>2 DEF TypeOK, Row, Chunk, Open
      <4>2. ~Doomed(t, c)
        BY <3>2, <4>1 DEF Durable
      <4>3. c.doc # doc[t]
        BY <1>1, <1>4, <2>4, <3>2, <4>1 DEF DocumentsInv
      <4> QED
        BY <4>2, <4>3
    <3> QED
      BY <2>2, <3>1, <3>2, CommitDocuments
  <2>5. ASSUME Open(t), NEW c \in chunks, c.by = t PROVE c \in chunks'
    <3>1. c \in Row /\ status[t] # "committed"
      BY <2>5 DEF TypeOK, Row, Open
    <3>2. <<c, u>> \notin deleted
      BY <2>5, <3>1 DEF Durable, Doomed
    <3>3. \A e \in deleted : e[2] = u => e = <<e[1], u>>
      BY DEF TypeOK
    <3> QED
      BY <1>1, <2>5, <3>2, <3>3 DEF Gone
  <2>6. Ingests(t)'
    BY <1>1, <2>1, <2>2, <2>3, <2>4, <2>5 DEF Ingests
  <2>7. Sees(t)'
    <3>1. read[t] # {} => Open(t)
      BY DEF Own, Reads
    <3>2. Documents(LiveChunks) \subseteq Documents(LiveChunks')
      BY <2>2, CommitDocuments
    <3> QED
      BY <2>1, <2>2, <2>5, <3>1, <3>2 DEF Sees
  <2> QED
    BY <2>6, <2>7
<1> QED
  BY <1>3, <1>4

LEMMA InitDocumentsInv == Init => DocumentsInv
BY DEF Init, DocumentsInv, OneEach, Covers, Ingests, Sees, Open, LiveChunks, Committed

\* Two ingestions of one document do not overlap.
LEMMA OneIngestion ==
  ASSUME TypeOK, NEW w \in Txs, Begin(w) \/ Statement(w) \/ Abort(w) \/ Commit(w),
         \A t, u \in Txs : Open(t) /\ Open(u) /\ doc[t] = doc[u] /\ doc[t] \in Docs => t = u
  PROVE  \A t, u \in Txs :
           Open(t)' /\ Open(u)' /\ doc'[t] = doc'[u] /\ doc'[t] \in Docs => t = u
<1>1. CASE \E d \in Docs : BeginIngestion(w, d)
  <2>1. PICK d \in Docs : BeginIngestion(w, d)
    BY <1>1
  <2>2. /\ d # NoDoc => \A u \in Txs : Open(u) => doc[u] # d
        /\ status' = [status EXCEPT ![w] = "open"] /\ doc' = [doc EXCEPT ![w] = d]
    BY <2>1 DEF BeginIngestion, StartTransaction
  <2> QED
    BY <2>2, TermsAssumption DEF TypeOK, Open
<1>2. CASE BeginRefresh(w)
  BY <1>2, TermsAssumption DEF BeginRefresh, StartTransaction, TypeOK, Open
<1>3. CASE Statement(w)
  BY <1>3, StatementApart DEF Open
<1>4. CASE Abort(w)
  BY <1>4 DEF Abort, AbortByDatabase, AbortByError, Rollback, Close, TypeOK, Open
<1>5. CASE Commit(w)
  BY <1>5 DEF Commit, Close, TypeOK, Open
<1> QED
  BY <1>1, <1>2, <1>3, <1>4, <1>5 DEF Begin

LEMMA NextDocumentsInv == IInv /\ CountInv /\ DocumentsInv /\ [Next]_vars => DocumentsInv'
<1> SUFFICES ASSUME IInv, CountInv, DocumentsInv, [Next]_vars PROVE DocumentsInv'
  OBVIOUS
<1>1. TypeOK /\ TypeOK' /\ \A t \in Txs : Good(t)
  BY NextIInv DEF IInv, IGood
<1>2. Durable /\ \A t \in Txs : Own(t)
  BY DEF CountInv
<1>3. OneEach(LiveChunks) /\ Covers /\ \A t \in Txs : Ingests(t) /\ Sees(t)
  BY DEF DocumentsInv
<1>4. CASE UNCHANGED vars
  BY <1>4 DEF vars, DocumentsInv, OneEach, Covers, Ingests, Sees, Documents, Open, Doomed, LiveChunks, Committed
<1>5. SUFFICES ASSUME NEW u \in Txs, Begin(u) \/ Statement(u) \/ Abort(u) \/ Commit(u)
               PROVE  OneEach(LiveChunks)' /\ Covers' /\ \A t \in Txs : Ingests(t)' /\ Sees(t)'
  BY <1>1, <1>4, NextCases, OneIngestion DEF DocumentsInv, Open
<1>6. CASE Commit(u)
  BY <1>1, <1>2, <1>3, <1>6, CommitDocuments, CommitCovers, CommitIngests DEF OneEach
<1>7. CASE Begin(u) \/ Statement(u) \/ Abort(u)
  <2>1. Apart(u)
    BY <1>1, <1>7, BeginApart, StatementApart, AbortApart
  <2>2. OneEach(LiveChunks)' /\ Covers'
    BY <1>1, <1>3, <2>1, ApartCommitted DEF OneEach, Covers, Documents, LiveChunks
  <2>3. Ingests(u)' /\ Sees(u)'
    <3>1. CASE Statement(u)
      BY <1>1, <1>3, <3>1, StatementIngests, StatementSees
    <3> QED
      BY <1>1, <1>2, <1>7, <3>1, BeginIngests, AbortIngests
  <2>4. \A t \in Txs \ {u} : Ingests(t)' /\ Sees(t)'
    BY <1>1, <1>3, <2>1, ApartIngests
  <2> QED
    BY <2>2, <2>3, <2>4
<1> QED
  BY <1>5, <1>6, <1>7

LEMMA CorpusInvHolds == Spec => [](CountInv /\ DocumentsInv)
<1>1. Init => IInv /\ CountInv /\ DocumentsInv
  BY InitIInv, InitCountInv, InitDocumentsInv
<1>2. IInv /\ CountInv /\ DocumentsInv /\ [Next]_vars => (IInv /\ CountInv /\ DocumentsInv)'
  BY NextIInv, NextCountInv, NextDocumentsInv
<1> QED
  BY <1>1, <1>2, PTL DEF Spec

\* However transactions overlap and fail, the committed statistics of a policy never count
\* a document that has no chunk, nor a chunk with terms that is gone; they are there
\* for every term of the chunks they count, and no term has two.  What is wrong with
\* an index is that chunks are missing from it.  (A chunk without terms may be gone that
\* they count: no row of chunk_keyword_terms keeps it from being replaced.)
THEOREM StatisticsLagBehind == Spec => [](StatisticsInv /\ Covers)
<1>1. CountInv /\ DocumentsInv => StatisticsInv /\ Covers
  BY DEF CountInv, DocumentsInv
<1> QED
  BY <1>1, CorpusInvHolds, PTL

\* Chunks of different documents, as many as there are, are of the same documents.
LEMMA SameDocuments ==
  ASSUME NEW S, NEW T, OneEach(S), OneEach(T), Documents(S) \subseteq Documents(T),
         IsFiniteSet(T), Cardinality(S) = Cardinality(T)
  PROVE  Documents(S) = Documents(T)
<1> DEFINE f == [c \in S |-> CHOOSE k \in T : k.doc = c.doc]
<1>1. \A c \in S : \E k \in T : k.doc = c.doc
  BY DEF Documents
<1>2. \A c \in S : f[c] \in T /\ f[c].doc = c.doc
  BY <1>1
<1>3. f \in [S -> T]
  BY <1>2
<1> HIDE DEF f
<1>4. f \in Injection(S, T)
  BY <1>2, <1>3, Fun_IsInj DEF OneEach
<1>5. f \in Surjection(S, T)
  BY <1>4, FS_Injection
<1>6. \A k \in T : \E c \in S : f[c] = k
  BY <1>5, Fun_SurjectionProperties
<1> QED
  BY <1>2, <1>6 DEF Documents

\* For any number of transactions, documents and terms, the coverage matrix compares
\* numbers of chunks and calls no document complete whose statistics say anything but
\* what a refresh would say: they count no document that has no chunk, so as many
\* chunks as there are are those of the same documents.
THEOREM CompleteIsExactHolds == Spec => []CompleteIsExact
<1>1. CountInv /\ DocumentsInv => CompleteIsExact
  <2> SUFFICES ASSUME CountInv, DocumentsInv, NEW d \in Docs, Complete(d), NEW x \in TermsOf[d]
               PROVE  \E r \in Statistics(x) :
                        Statistics(x) = {r} /\ SameCorpus(r.counts, LiveChunks)
    BY DEF CompleteIsExact
  <2>1. StatisticsInv /\ Covers /\ OneEach(LiveChunks) /\ IsFiniteSet(LiveChunks)
    BY FS_Subset DEF CountInv, DocumentsInv, LiveChunks, Committed
  <2>2. PICK r \in Committed(statRows) : Cardinality(r.counts) = Cardinality(LiveChunks)
    BY DEF Complete, CorpusCounts
  <2>3. Documents(r.counts) = Documents(LiveChunks)
    BY <2>1, <2>2, SameDocuments DEF Covers
  <2>4. Termed(r.counts) = Termed(LiveChunks)
    <3>1. Termed(r.counts) \subseteq LiveChunks
      BY <2>1 DEF StatisticsInv
    <3>2. ASSUME NEW c \in LiveChunks, TermsOf[c.doc] # {} PROVE c \in r.counts
      <4>1. PICK k \in r.counts : k.doc = c.doc
        BY <2>3 DEF Documents
      <4>2. k \in LiveChunks
        BY <3>1, <3>2, <4>1 DEF Termed
      <4> QED
        BY <2>1, <4>1, <4>2 DEF OneEach
    <3> QED
      BY <3>1, <3>2 DEF Termed
  <2>5. PICK c \in r.counts : c.doc = d
    <3>1. d \in Documents(LiveChunks)
      BY DEF Complete, Documents
    <3> QED
      BY <2>3, <3>1 DEF Documents
  <2>6. PICK q \in Committed(statRows) : q.term = x /\ q.counts = r.counts
    BY <2>1, <2>2, <2>5 DEF StatisticsInv
  <2>7. q \in Statistics(x) /\ Statistics(x) = {q}
    BY <2>1, <2>6 DEF Statistics, StatsRows, Committed, StatisticsInv
  <2> QED
    BY <2>3, <2>4, <2>6, <2>7 DEF SameCorpus
<1> QED
  BY <1>1, CorpusInvHolds, PTL

===============================================================================
