--------------------------------- MODULE Answers ---------------------------------
(***************************************************************************)
(* How a question becomes an answer with citations: chat posts             *)
(* (app/main.py, app/core/chat.py), searches and their logs                *)
(* (search_compare.py, search_logs.py), generation runs                    *)
(* (generation_executor.py, generation_runs.py) and document summaries     *)
(* (document_summary.py), while ingestion replaces chunks (chunks.py) and  *)
(* operators delete expired search logs.                                   *)
(*                                                                         *)
(* A request is a row of short transactions with provider calls between    *)
(* them; every transaction is one action.  A request makes at most one     *)
(* log, one run, one question and one answer, so these are named after the *)
(* request.  A chunk is a document and a version: replacing the chunks of  *)
(* a document deletes its version and makes the next one.                  *)
(*                                                                         *)
(* Which chunks a search finds, which of them fit into the prompt and      *)
(* whether they are good enough to answer from is left open.               *)
(***************************************************************************)
EXTENDS Naturals, Sequences

CONSTANTS Requests,    \* requests of the HTTP API
          Sessions,    \* chat_session_id values
          Documents,   \* document_id values
          MaxVersions, \* bound: how often a document's chunks are written
          Batch,       \* cleanup_batch_size
          Null         \* SQL NULL

ASSUME BoundsAssumption == MaxVersions \in Nat /\ Batch \in Nat \ {0}
ASSUME NullAssumption ==
  /\ Null \notin Nat
  /\ Null \notin [request : Requests, role : {"user", "assistant"}]
  /\ Null \notin Documents \X Nat

VARIABLES live,      \* the version of each document's chunks, 0: none yet
          pc,        \* what each request does next
          kind,      \* what each request is for
          session,   \* the chat session it posts to
          parent,    \* parent_message_id of its question, Null: none
          number,    \* the sequence_no it is about to insert, Null: not read
          messages,  \* chat_messages
          found,     \* the chunks its search has found
          logs,      \* search_logs, in the order of created_at
          results,   \* search_log_results of each log
          log,       \* the log it generates from
          package,   \* the chunks its prompt includes
          run,       \* status of its generation_runs row, Null: no row
          citations  \* generation_run_citations

chat == <<session, parent, number, messages>>
search == <<found, logs, results>>
answer == <<log, package, run, citations>>
vars == <<live, pc, kind, chat, search, answer>>

\* Posts that are routed only, are answered without documents, summarise a search,
\* answer from documents or generate one; then the endpoints without a chat.
ChatKinds == {"route_only", "general", "search_summary", "grounded"}
Kinds == ChatKinds \union {"compare", "direct", "document_summary", "from_log"}

PCs == {"new", "question", "search", "results", "package", "generate", "cite",
        "number", "answer", "done", "failed"}

Chunks == Documents \X (1..MaxVersions)

\* chat_message_id: a request posts one message of each role at most.
Ids == [request : Requests, role : {"user", "assistant"}]

TypeOK ==
  /\ live \in [Documents -> 0..MaxVersions]
  /\ pc \in [Requests -> PCs]
  /\ kind \in [Requests -> Kinds \union {Null}]
  /\ session \in [Requests -> Sessions \union {Null}]
  /\ parent \in [Requests -> Ids \union {Null}]
  /\ number \in [Requests -> (Nat \ {0}) \union {Null}]
  /\ messages \subseteq [request : Requests, role : {"user", "assistant"},
                         session : Sessions, no : Nat \ {0},
                         parent : Ids \union {Null}]
  /\ found \in [Requests -> SUBSET Chunks]
  /\ logs \in Seq(Requests)
  /\ results \in [Requests -> SUBSET Chunks]
  /\ log \in [Requests -> Requests]
  /\ package \in [Requests -> SUBSET Chunks]
  /\ run \in [Requests -> {Null, "succeeded", "failed", "no_answer"}]
  /\ citations \subseteq [run : Requests, key : Chunks, chunk : Chunks \union {Null}]

Init ==
  /\ live = [d \in Documents |-> 0]
  /\ pc = [r \in Requests |-> "new"]
  /\ kind = [r \in Requests |-> Null]
  /\ session = [r \in Requests |-> Null]
  /\ parent = [r \in Requests |-> Null]
  /\ number = [r \in Requests |-> Null]
  /\ messages = {}
  /\ found = [r \in Requests |-> {}]
  /\ logs = <<>>
  /\ results = [r \in Requests |-> {}]
  /\ log = [r \in Requests |-> r]
  /\ package = [r \in Requests |-> {}]
  /\ run = [r \in Requests |-> Null]
  /\ citations = {}

Go(r, next) == pc' = [pc EXCEPT ![r] = next]

Ended(r) == pc[r] \in {"done", "failed"}

Logged(l) == \E i \in DOMAIN logs : logs[i] = l

IsLive(chunk) == live[chunk[1]] = chunk[2]

-------------------------------------------------------------------------------
(* Messages: append_chat_message reads MAX(sequence_no) + 1 and inserts, without
   a lock; UNIQUE (chat_session_id, sequence_no) makes the later one of two fail. *)

Of(s) == {m \in messages : m.session = s}

NextNumber_Last(s) ==
  {n \in {0} \union {m.no : m \in Of(s)} : \A m \in Of(s) : m.no <= n}

\* COALESCE(MAX(sequence_no), 0) + 1, the only element
NextNumber(s) ==
  {n \in {1} \union {m.no + 1 : m \in Of(s)} : \A m \in Of(s) : m.no < n}

Taken_Never(s, n) == FALSE

Taken(s, n) == \E m \in Of(s) : m.no = n

ReadNumber(r, s) == \E n \in NextNumber(s) : number' = [number EXCEPT ![r] = n]

\* The parent, if one is given, is a message of the same session.
Parents(s) == {[request |-> m.request, role |-> m.role] : m \in Of(s)} \union {Null}

\* api_post_chat_message and api_regenerate_chat_message
Post(r) ==
  /\ pc[r] = "new"
  /\ \E k \in ChatKinds : kind' = [kind EXCEPT ![r] = k]
  /\ \E s \in Sessions :
       /\ session' = [session EXCEPT ![r] = s]
       /\ \E id \in Parents(s) : parent' = [parent EXCEPT ![r] = id]
       /\ ReadNumber(r, s)
  /\ Go(r, "question")
  /\ UNCHANGED <<live, messages, search, answer>>

Insert(r, role, replied, next) ==
  /\ IF Taken(session[r], number[r])
     THEN /\ Go(r, "failed")
          /\ UNCHANGED messages
     ELSE /\ Go(r, next)
          /\ messages' = messages \union
               {[request |-> r, role |-> role, session |-> session[r],
                 no |-> number[r], parent |-> replied]}
  /\ number' = [number EXCEPT ![r] = Null]
  /\ parent' = [parent EXCEPT ![r] = Null]
  /\ UNCHANGED <<live, kind, session, search, answer>>

InsertQuestion(r) ==
  /\ pc[r] = "question"
  /\ Insert(r, "user", parent[r],
            CASE kind[r] = "route_only" -> "done"
              [] kind[r] = "general" -> "number"
              [] OTHER -> "search")

\* A general answer asks the provider before it gets here.
NumberAnswer(r) ==
  /\ pc[r] = "number"
  /\ ReadNumber(r, session[r])
  /\ Go(r, "answer")
  /\ UNCHANGED <<live, kind, session, parent, messages, search, answer>>

\* Its links to the log, the run and the downloads, which no step reads, follow one
\* by one and are left out.
InsertAnswer(r) ==
  /\ pc[r] = "answer"
  /\ Insert(r, "assistant", [request |-> r, role |-> "user"], "done")

-------------------------------------------------------------------------------
(* Searches *)

Start(r) ==
  /\ pc[r] = "new"
  /\ \E k \in {"compare", "direct"} : kind' = [kind EXCEPT ![r] = k]
  /\ Go(r, "search")
  /\ UNCHANGED <<live, chat, search, answer>>

\* One search profile after another reads the chunks of the moment; a profile that
\* fails finds none.
SearchProfile(r) ==
  /\ pc[r] = "search"
  /\ \E S \in SUBSET {chunk \in Chunks : IsLive(chunk)} :
       found' = [found EXCEPT ![r] = @ \union S]
  /\ UNCHANGED <<live, pc, kind, chat, logs, results, answer>>

CreateLog(r) ==
  /\ pc[r] = "search"
  /\ logs' = Append(logs, r)
  /\ Go(r, "results")
  /\ UNCHANGED <<live, kind, chat, found, results, answer>>

\* All results in one transaction, whose foreign key needs every chunk to be there still.
StoreResults(r) ==
  /\ pc[r] = "results"
  /\ IF \A chunk \in found[r] : IsLive(chunk)
     THEN /\ results' = [results EXCEPT ![r] = found[r]]
          /\ Go(r, CASE kind[r] = "compare" -> "done"
                     [] kind[r] = "search_summary" -> "number"
                     [] OTHER -> "package")
     ELSE /\ Go(r, "failed")
          /\ UNCHANGED results
  /\ found' = [found EXCEPT ![r] = {}]
  /\ UNCHANGED <<live, kind, chat, logs, answer>>

\* _create_document_summary_search_log writes the log and its results in one
\* transaction, for chunks of one document that were read before.
LogDocument(r) ==
  /\ pc[r] = "new"
  /\ kind' = [kind EXCEPT ![r] = "document_summary"]
  /\ \E d \in Documents :
       /\ live[d] # 0
       /\ results' = [results EXCEPT ![r] = {<<d, live[d]>>}]
  /\ logs' = Append(logs, r)
  /\ Go(r, "package")
  /\ UNCHANGED <<live, chat, found, answer>>

-------------------------------------------------------------------------------
(* Generation *)

\* The endpoints that generate from an existing log, whoever made it.
StartFromLog(r) ==
  /\ pc[r] = "new"
  /\ kind' = [kind EXCEPT ![r] = "from_log"]
  /\ \E i \in DOMAIN logs : log' = [log EXCEPT ![r] = logs[i]]
  /\ Go(r, "package")
  /\ UNCHANGED <<live, chat, search, package, run, citations>>

\* build_retrieval_context_package: duplicates, the number of items, the budget and
\* low confidence exclude results; nothing is left of a log that was deleted.
BuildPackage(r) ==
  /\ pc[r] = "package"
  /\ IF Logged(log[r])
     THEN /\ \E S \in SUBSET results[log[r]] : package' = [package EXCEPT ![r] = S]
          /\ Go(r, "generate")
     ELSE /\ Go(r, "failed")
          /\ UNCHANGED package
  /\ UNCHANGED <<live, kind, chat, search, log, run, citations>>

\* A run is deleted with the log it was made from.
RunExists(r) == run[r] # Null /\ Logged(log[r])

\* The prompt is blocked and the citations are not ready without any chunk.
Blocked(r) == package[r] = {}

\* Without a block the provider is called first; its error makes the run a failed one.
\* The guardrails may also block a package that is not empty.
CreateRun(r) ==
  /\ pc[r] = "generate"
  /\ IF Logged(log[r])
     THEN \E status \in IF Blocked(r) THEN {"no_answer"}
                                      ELSE {"no_answer", "failed", "succeeded"} :
            /\ run' = [run EXCEPT ![r] = status]
            /\ Go(r, "cite")
     ELSE /\ Go(r, "failed")
          /\ UNCHANGED run
  /\ UNCHANGED <<live, kind, chat, search, log, package, citations>>

CitedBy(r) == {c.key : c \in {c \in citations : c.run = r}}

Uncited_Primary(r) == IF run[r] = "succeeded" /\ CitedBy(r) = {} THEN package[r] ELSE {}

Uncited(r) == IF run[r] = "succeeded" THEN package[r] \ CitedBy(r) ELSE {}

\* One transaction per included candidate; it needs the run, the search result and
\* the chunk.
Cite(r) ==
  /\ pc[r] = "cite"
  /\ \E chunk \in Uncited(r) :
       IF RunExists(r) /\ chunk \in results[log[r]] /\ IsLive(chunk)
       THEN /\ citations' = citations \union {[run |-> r, key |-> chunk, chunk |-> chunk]}
            /\ UNCHANGED pc
       ELSE /\ Go(r, "failed")
            /\ UNCHANGED citations
  /\ UNCHANGED <<live, kind, chat, search, log, package, run>>

\* Everything is cited, also when the clean-up has deleted the run since.
EndRun(r) ==
  /\ pc[r] = "cite"
  /\ Uncited(r) = {} \/ ~RunExists(r)
  /\ Go(r, IF kind[r] = "grounded" THEN "number" ELSE "done")
  /\ UNCHANGED <<live, kind, chat, search, answer>>

\* An exception or the end of the process: only the transaction under way is undone.
Fail(r) ==
  /\ pc[r] # "new" /\ ~Ended(r)
  /\ Go(r, "failed")
  /\ number' = [number EXCEPT ![r] = Null]
  /\ parent' = [parent EXCEPT ![r] = Null]
  /\ found' = [found EXCEPT ![r] = {}]
  /\ UNCHANGED <<live, kind, session, messages, logs, results, answer>>

-------------------------------------------------------------------------------
(* The others *)

Referred_Never(d) == FALSE

\* search_log_results.chunk_id REFERENCES chunks without ON DELETE.
Referred(d) == \E i \in DOMAIN logs : <<d, live[d]>> \in results[logs[i]]

\* replace_document_chunks_in_connection; a DELETE that fails undoes the ingestion.
\* generation_run_citations.chunk_id is set to NULL.
Replace(d) ==
  /\ live[d] < MaxVersions
  /\ ~Referred(d)
  /\ live' = [live EXCEPT ![d] = @ + 1]
  /\ citations' = {IF c.chunk = <<d, live[d]>> THEN [c EXCEPT !.chunk = Null] ELSE c :
                     c \in citations}
  /\ UNCHANGED <<pc, kind, chat, search, log, package, run>>

\* cleanup_expired_search_logs deletes the oldest logs up to a limit, by cascade with
\* their results, runs and citations.  Retention is a day or longer, so that a log
\* never expires under the request that made it.
Expire(n) ==
  /\ n \in 1..Len(logs)
  /\ \A i \in 1..n : Ended(logs[i])
  /\ LET gone == {logs[i] : i \in 1..n} IN
       /\ results' = [l \in Requests |-> IF l \in gone THEN {} ELSE results[l]]
       /\ citations' = {c \in citations : log[c.run] \notin gone}
  /\ logs' = SubSeq(logs, n + 1, Len(logs))
  /\ UNCHANGED <<live, pc, kind, chat, found, log, package, run>>

Next ==
  \/ \E r \in Requests :
       \/ Post(r) \/ InsertQuestion(r) \/ NumberAnswer(r) \/ InsertAnswer(r)
       \/ Start(r) \/ SearchProfile(r) \/ CreateLog(r) \/ StoreResults(r)
       \/ LogDocument(r) \/ StartFromLog(r) \/ BuildPackage(r) \/ CreateRun(r)
       \/ Cite(r) \/ EndRun(r) \/ Fail(r)
  \/ \E d \in Documents : Replace(d)
  \/ \E n \in 1..Batch : Expire(n)

Spec == Init /\ [][Next]_vars

-------------------------------------------------------------------------------
(* Properties *)

\* However posts to a session interleave, its messages are numbered 1, 2, 3, ...
\* without holes and doubles, and a reply stands behind the message it replies to, in
\* the same session.
ThreadsInOrder ==
  \A m \in messages :
    /\ \A n \in 1..m.no : \E o \in Of(m.session) : o.no = n
    /\ \A o \in Of(m.session) : o.no = m.no => o = m
    /\ m.parent # Null =>
         \E o \in Of(m.session) :
           o.request = m.parent.request /\ o.role = m.parent.role /\ o.no < m.no

\* No citation loses its anchor: it refers to a chunk that still exists and is among
\* the results of the log its run was made from, although ingestion replaces chunks
\* and clean-up deletes logs in the meantime.
CitationsAnchored ==
  \A c \in citations :
    /\ c.chunk # Null /\ IsLive(c.chunk)
    /\ RunExists(c.run)
    /\ c.chunk \in results[log[c.run]]

\* What a chat shows as an answer from documents cites at least one chunk and
\* everything its prompt was made of, for as long as its run is kept: a crash while
\* citations are written leaves no such message.
AnswerIsCited ==
  \A m \in messages :
    LET r == m.request IN
    m.role = "assistant" /\ RunExists(r) /\ run[r] = "succeeded" =>
      CitedBy(r) # {} /\ CitedBy(r) = package[r]

===============================================================================
