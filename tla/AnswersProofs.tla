------------------------------ MODULE AnswersProofs ------------------------------
(***************************************************************************)
(* Theorems about Answers, for every set of requests, sessions and         *)
(* documents and any number of chunk versions.                             *)
(*                                                                         *)
(* Threads: no post locks its session, but what it has read stays true     *)
(* because messages are never deleted: the numbers below the one it read   *)
(* are taken, and its own is refused if it is taken too.                   *)
(* Anchors: a citation is written while its log, result and chunk are      *)
(* there; the foreign key of the results keeps the chunk, and the log goes *)
(* only together with the run and the citations.                           *)
(***************************************************************************)
EXTENDS Answers, SequenceTheorems, TLAPS

Early == {"new", "question", "search"}

\* What each place of a request implies for its columns.
Places ==
  \A r \in Requests :
    /\ pc[r] \in {"question", "number", "answer"} => kind[r] \in ChatKinds
    /\ kind[r] \in ChatKinds /\ pc[r] # "new" => session[r] \in Sessions
    /\ pc[r] \in {"question", "answer"} => number[r] # Null

\* What a request has read is still so when it inserts: all numbers below its own
\* are taken, its parent stands before it, and so does its question.
Numbered ==
  \A r \in Requests :
    /\ number[r] # Null =>
         \A n \in 1..(number[r] - 1) : \E o \in Of(session[r]) : o.no = n
    /\ pc[r] = "question" /\ parent[r] # Null =>
         \E o \in Of(session[r]) :
           o.request = parent[r].request /\ o.role = parent[r].role /\ o.no < number[r]
    /\ kind[r] \in ChatKinds /\ pc[r] \notin {"new", "question", "failed"} =>
         \E o \in Of(session[r]) :
           /\ o.request = r /\ o.role = "user"
           /\ pc[r] = "answer" => o.no < number[r]

Different(s) == \A i, k \in DOMAIN s : s[i] = s[k] => i = k

\* A request makes its log once, from which its results come.
LogsOnce ==
  /\ Different(logs)
  /\ \A l \in Requests : Logged(l) => pc[l] \notin Early
  /\ \A r \in Requests : pc[r] \in Early \union {"results"} => results[r] = {}

\* A run comes after the package and the log it is made from.
RunsLater ==
  \A r \in Requests : run[r] # Null =>
    /\ pc[r] \notin Early \union {"results", "package", "generate"}
    /\ pc[log[r]] \notin Early
    /\ run[r] = "succeeded" => package[r] # {}

\* What is cited belongs to the package, and before an answer is written all of it is.
Cited ==
  /\ \A c \in citations : c.key \in package[c.run]
  /\ \A r \in Requests :
       pc[r] \in {"number", "answer", "done"} /\ RunExists(r) /\ run[r] = "succeeded" =>
         package[r] \subseteq CitedBy(r)
  /\ \A m \in messages : m.role = "assistant" => pc[m.request] = "done"

Threads == Places /\ ThreadsInOrder /\ Numbered
Anchors == LogsOnce /\ RunsLater /\ CitationsAnchored /\ Cited


LEMMA InitTyped == Init => TypeOK
  BY BoundsAssumption DEF Init, TypeOK, Kinds, PCs

-------------------------------------------------------------------------------
(* Types *)

\* A number that is read is positive.
LEMMA NextNumberType ==
  ASSUME TypeOK, NEW s, NEW n \in NextNumber(s) PROVE n \in Nat \ {0}
<1>1. \A m \in Of(s) : m.no + 1 \in Nat \ {0}
  BY DEF TypeOK, Of
<1> QED
  BY <1>1 DEF NextNumber

LEMMA ParentsType ==
  ASSUME TypeOK, NEW s, NEW id \in Parents(s) PROVE id \in Ids \union {Null}
  BY DEF TypeOK, Parents, Of, Ids

\* Both inserts keep the types.
LEMMA InsertTyped ==
  ASSUME TypeOK, NEW r \in Requests, NEW role \in {"user", "assistant"},
         NEW replied \in Ids \union {Null}, NEW next \in PCs,
         session[r] \in Sessions, number[r] # Null, Insert(r, role, replied, next)
  PROVE  TypeOK'
<1>1. pc' \in [Requests -> PCs]
  BY DEF TypeOK, Insert, Go, PCs
<1>2. [request |-> r, role |-> role, session |-> session[r],
       no |-> number[r], parent |-> replied]
        \in [request : Requests, role : {"user", "assistant"}, session : Sessions,
            no : Nat \ {0}, parent : Ids \union {Null}]
  BY DEF TypeOK
<1>3. messages' \subseteq [request : Requests, role : {"user", "assistant"},
        session : Sessions, no : Nat \ {0}, parent : Ids \union {Null}]
  BY <1>2 DEF TypeOK, Insert
<1> QED
  BY <1>1, <1>3 DEF TypeOK, Insert, search, answer

LEMMA ChatTyped ==
  ASSUME TypeOK, Places, NEW r \in Requests,
         Post(r) \/ InsertQuestion(r) \/ NumberAnswer(r) \/ InsertAnswer(r)
  PROVE  TypeOK'
<1>1. ASSUME Post(r) PROVE TypeOK'
  <2>1. PICK s \in Sessions :
          /\ session' = [session EXCEPT ![r] = s]
          /\ \E id \in Parents(s) : parent' = [parent EXCEPT ![r] = id]
          /\ ReadNumber(r, s)
    BY <1>1 DEF Post
  <2>2. parent' \in [Requests -> Ids \union {Null}]
    BY <2>1, ParentsType DEF TypeOK
  <2>3. number' \in [Requests -> (Nat \ {0}) \union {Null}]
    BY <2>1, NextNumberType DEF TypeOK, ReadNumber
  <2>4. kind' \in [Requests -> Kinds \union {Null}]
    BY <1>1 DEF Post, TypeOK, Kinds
  <2> QED
    BY <1>1, <2>1, <2>2, <2>3, <2>4 DEF Post, TypeOK, Go, PCs, search, answer
<1>2. ASSUME InsertQuestion(r) PROVE TypeOK'
  <2>1. session[r] \in Sessions /\ number[r] # Null
    BY <1>2 DEF InsertQuestion, Places
  <2>2. parent[r] \in Ids \union {Null}
    BY DEF TypeOK
  <2> QED
    BY <1>2, <2>1, <2>2, InsertTyped DEF InsertQuestion, PCs
<1>3. ASSUME NumberAnswer(r) PROVE TypeOK'
  <2>1. number' \in [Requests -> (Nat \ {0}) \union {Null}]
    BY <1>3, NextNumberType DEF NumberAnswer, TypeOK, ReadNumber
  <2> QED
    BY <1>3, <2>1 DEF NumberAnswer, TypeOK, Go, PCs, search, answer
<1>4. ASSUME InsertAnswer(r) PROVE TypeOK'
  <2>1. session[r] \in Sessions /\ number[r] # Null
    BY <1>4 DEF InsertAnswer, Places
  <2>2. [request |-> r, role |-> "user"] \in Ids
    BY DEF Ids
  <2> QED
    BY <1>4, <2>1, <2>2, InsertTyped DEF InsertAnswer, PCs
<1> QED
  BY <1>1, <1>2, <1>3, <1>4

\* A chunk that exists is one of Chunks.
LEMMA LiveChunk ==
  ASSUME TypeOK, NEW d \in Documents, live[d] # 0
  PROVE  <<d, live[d]>> \in Chunks
  BY BoundsAssumption DEF TypeOK, Chunks

LEMMA SearchTyped ==
  ASSUME TypeOK, NEW r \in Requests,
         Start(r) \/ SearchProfile(r) \/ CreateLog(r) \/ StoreResults(r) \/ LogDocument(r)
  PROVE  TypeOK'
<1>1. ASSUME Start(r) PROVE TypeOK'
  BY <1>1 DEF Start, TypeOK, Go, PCs, Kinds, chat, search, answer
<1>2. ASSUME SearchProfile(r) PROVE TypeOK'
  BY <1>2 DEF SearchProfile, TypeOK, chat, answer
<1>3. ASSUME CreateLog(r) PROVE TypeOK'
  BY <1>3, AppendProperties DEF CreateLog, TypeOK, Go, PCs, chat, answer
<1>4. ASSUME StoreResults(r) PROVE TypeOK'
  <2>1. pc' \in [Requests -> PCs]
    BY <1>4 DEF StoreResults, TypeOK, Go, PCs
  <2>2. results' \in [Requests -> SUBSET Chunks]
    BY <1>4 DEF StoreResults, TypeOK
  <2> QED
    BY <1>4, <2>1, <2>2 DEF StoreResults, TypeOK, chat, answer
<1>5. ASSUME LogDocument(r) PROVE TypeOK'
  <2>1. results' \in [Requests -> SUBSET Chunks]
    BY <1>5, LiveChunk DEF LogDocument, TypeOK
  <2>2. kind' \in [Requests -> Kinds \union {Null}]
    BY <1>5 DEF LogDocument, TypeOK, Kinds
  <2> QED
    BY <1>5, <2>1, <2>2, AppendProperties DEF LogDocument, TypeOK, Go, PCs, chat, answer
<1> QED
  BY <1>1, <1>2, <1>3, <1>4, <1>5

LEMMA AnswerTyped ==
  ASSUME TypeOK, NEW r \in Requests,
         StartFromLog(r) \/ BuildPackage(r) \/ CreateRun(r) \/ Cite(r) \/ EndRun(r) \/ Fail(r)
  PROVE  TypeOK'
<1>1. ASSUME StartFromLog(r) PROVE TypeOK'
  BY <1>1, ElementOfSeq DEF StartFromLog, TypeOK, Go, PCs, Kinds, chat, search
<1>2. ASSUME BuildPackage(r) PROVE TypeOK'
  <2>1. results[log[r]] \subseteq Chunks
    BY DEF TypeOK
  <2>2. package' \in [Requests -> SUBSET Chunks]
    BY <1>2, <2>1 DEF BuildPackage, TypeOK
  <2> QED
    BY <1>2, <2>2 DEF BuildPackage, TypeOK, Go, PCs, chat, search
<1>3. ASSUME CreateRun(r) PROVE TypeOK'
  <2>1. run' \in [Requests -> {Null, "succeeded", "failed", "no_answer"}]
    BY <1>3 DEF CreateRun, TypeOK
  <2> QED
    BY <1>3, <2>1 DEF CreateRun, TypeOK, Go, PCs, chat, search
<1>4. ASSUME Cite(r) PROVE TypeOK'
  <2>1. Uncited(r) \subseteq Chunks
    BY DEF Uncited, TypeOK
  <2>2. citations' \subseteq [run : Requests, key : Chunks, chunk : Chunks \union {Null}]
    BY <1>4, <2>1 DEF Cite, TypeOK
  <2> QED
    BY <1>4, <2>2 DEF Cite, TypeOK, Go, PCs, chat, search
<1>5. ASSUME EndRun(r) PROVE TypeOK'
  BY <1>5 DEF EndRun, TypeOK, Go, PCs, chat, search, answer
<1>6. ASSUME Fail(r) PROVE TypeOK'
  BY <1>6 DEF Fail, TypeOK, Go, PCs, answer
<1> QED
  BY <1>1, <1>2, <1>3, <1>4, <1>5, <1>6

LEMMA OthersTyped ==
  ASSUME TypeOK,
         \/ \E d \in Documents : Replace(d)
         \/ \E n \in 1..Batch : Expire(n)
  PROVE  TypeOK'
<1>1. ASSUME NEW d \in Documents, Replace(d) PROVE TypeOK'
  <2>1. live' \in [Documents -> 0..MaxVersions]
    BY <1>1, BoundsAssumption DEF Replace, TypeOK
  <2>2. citations' \subseteq [run : Requests, key : Chunks, chunk : Chunks \union {Null}]
    <3>1. \A c \in citations :
            /\ c \in [run : Requests, key : Chunks, chunk : Chunks \union {Null}]
            /\ [c EXCEPT !.chunk = Null]
                 \in [run : Requests, key : Chunks, chunk : Chunks \union {Null}]
      BY DEF TypeOK
    <3>2. citations' \subseteq citations \union {[c EXCEPT !.chunk = Null] : c \in citations}
      BY <1>1 DEF Replace
    <3> QED
      BY <3>1, <3>2
  <2> QED
    BY <1>1, <2>1, <2>2 DEF Replace, TypeOK, chat, search
<1>2. ASSUME NEW n \in 1..Batch, Expire(n) PROVE TypeOK'
  <2>1. /\ n + 1 \in Int /\ Len(logs) \in Int
        /\ \A i \in (n + 1)..Len(logs) : logs[i] \in Requests
    BY <1>2, ElementOfSeq DEF Expire, TypeOK
  <2>2. SubSeq(logs, n + 1, Len(logs)) \in Seq(Requests)
    BY <2>1, SubSeqProperties
  <2> QED
    BY <1>2, <2>2 DEF Expire, TypeOK, chat
<1> QED
  BY <1>1, <1>2

-------------------------------------------------------------------------------
(* Threads *)

Chatting(r) == Post(r) \/ InsertQuestion(r) \/ NumberAnswer(r) \/ InsertAnswer(r)

Working(r) ==
  \/ Start(r) \/ SearchProfile(r) \/ CreateLog(r) \/ StoreResults(r) \/ LogDocument(r)
  \/ StartFromLog(r) \/ BuildPackage(r) \/ CreateRun(r) \/ Cite(r) \/ EndRun(r)

\* The steps between a request's messages leave messages alone, and a request on its
\* way to an answer is one that posted a question.
LEMMA WorkingStep ==
  ASSUME NEW r \in Requests, TypeOK, Places, Working(r)
  PROVE  /\ UNCHANGED <<session, parent, number, messages>>
         /\ pc' = [pc EXCEPT ![r] = pc'[r]]
         /\ kind' = [kind EXCEPT ![r] = kind'[r]]
         /\ pc'[r] \in PCs \ {"new", "question", "answer"}
         /\ kind'[r] # kind[r] => pc[r] = "new" /\ kind'[r] \notin ChatKinds
         /\ pc'[r] = "number" => kind'[r] \in ChatKinds
         /\ pc[r] \notin {"question", "failed"}
         /\ pc[r] = "new" => kind'[r] \notin ChatKinds
<1> DEFINE Goal ==
      /\ UNCHANGED <<session, parent, number, messages>>
      /\ pc' = [pc EXCEPT ![r] = pc'[r]]
      /\ kind' = [kind EXCEPT ![r] = kind'[r]]
      /\ pc'[r] \in PCs \ {"new", "question", "answer"}
      /\ kind'[r] # kind[r] => pc[r] = "new" /\ kind'[r] \notin ChatKinds
      /\ pc'[r] = "number" => kind'[r] \in ChatKinds
      /\ pc[r] \notin {"question", "failed"}
      /\ pc[r] = "new" => kind'[r] \notin ChatKinds
<1> USE DEF Go, PCs, ChatKinds, chat, TypeOK
<1>1. ASSUME Start(r) \/ LogDocument(r) \/ StartFromLog(r) PROVE Goal
  BY <1>1 DEF Start, LogDocument, StartFromLog
<1>2. ASSUME SearchProfile(r) \/ CreateLog(r) PROVE Goal
  BY <1>2 DEF SearchProfile, CreateLog
<1>3. ASSUME StoreResults(r) PROVE Goal
  BY <1>3 DEF StoreResults
<1>4. ASSUME BuildPackage(r) PROVE Goal
  BY <1>4 DEF BuildPackage
<1>5. ASSUME CreateRun(r) PROVE Goal
  BY <1>5 DEF CreateRun
<1>6. ASSUME Cite(r) PROVE Goal
  BY <1>6 DEF Cite
<1>7. ASSUME EndRun(r) PROVE Goal
  BY <1>7 DEF EndRun
<1> QED
  BY <1>1, <1>2, <1>3, <1>4, <1>5, <1>6, <1>7 DEF Working

\* The number that is read is above all numbers of the session, which leave no hole.
LEMMA ReadNext ==
  ASSUME TypeOK, ThreadsInOrder, NEW s, NEW n \in NextNumber(s)
  PROVE  /\ n \in Nat \ {0}
         /\ \A k \in 1..(n - 1) : \E o \in Of(s) : o.no = k
         /\ \A m \in Of(s) : m.no < n
<1>1. n \in Nat \ {0}
  BY NextNumberType
<1>2. \A m \in Of(s) : m.no < n
  BY DEF NextNumber
<1>3. ASSUME NEW m \in Of(s), n = m.no + 1, NEW k \in 1..(n - 1)
      PROVE  \E o \in Of(s) : o.no = k
  <2>1. m \in messages /\ m.session = s /\ m.no \in Nat
    BY DEF Of, TypeOK
  <2>2. k \in 1..m.no
    BY <1>3, <2>1
  <2> QED
    BY <2>1, <2>2 DEF ThreadsInOrder
<1>4. n = 1 \/ \E m \in Of(s) : n = m.no + 1
  BY DEF NextNumber
<1> QED
  BY <1>1, <1>2, <1>3, <1>4

\* Messages are never taken back.
LEMMA InsertGrows ==
  ASSUME NEW r, NEW role, NEW replied, NEW next, Insert(r, role, replied, next)
  PROVE  messages \subseteq messages' /\ \A s : Of(s) \subseteq Of(s)'
  BY DEF Insert, Of

\* An insert with the next number and a parent before it keeps the thread in order.
LEMMA InsertInOrder ==
  ASSUME TypeOK, ThreadsInOrder, Numbered,
         NEW r \in Requests, NEW role, NEW replied, NEW next,
         number[r] # Null, Insert(r, role, replied, next),
         replied # Null => \E o \in Of(session[r]) :
           o.request = replied.request /\ o.role = replied.role /\ o.no < number[r]
  PROVE  ThreadsInOrder'
<1>1. CASE Taken(session[r], number[r])
  BY <1>1 DEF Insert, ThreadsInOrder, Of
<1>2. CASE ~Taken(session[r], number[r])
  <2> DEFINE new == [request |-> r, role |-> role, session |-> session[r],
                     no |-> number[r], parent |-> replied]
  <2>1. messages' = messages \union {new}
    BY <1>2 DEF Insert
  <2>2. number[r] \in Nat \ {0}
    BY DEF TypeOK
  <2>3. \A o \in Of(session[r]) : o.no # number[r]
    BY <1>2 DEF Taken
  <2> HIDE DEF new
  <2>4. new.session = session[r] /\ new.no = number[r] /\ new.parent = replied
    BY DEF new
  <2>5. \A s : Of(s)' = IF s = session[r] THEN Of(s) \union {new} ELSE Of(s)
    BY <2>1, <2>4 DEF Of
  <2>6. ASSUME NEW m \in messages', NEW n \in 1..m.no
        PROVE  \E o \in Of(m.session)' : o.no = n
    <3>1. CASE m \in messages
      BY <2>5, <2>6, <3>1 DEF ThreadsInOrder
    <3>2. CASE m = new /\ n = number[r]
      BY <2>4, <2>5, <3>2
    <3>3. CASE m = new /\ n # number[r]
      <4>1. n \in 1..(number[r] - 1)
        BY <2>2, <2>4, <2>6, <3>3
      <4>2. \E o \in Of(session[r]) : o.no = n
        BY <4>1 DEF Numbered
      <4> QED
        BY <2>4, <2>5, <3>3, <4>2
    <3> QED
      BY <2>1, <3>1, <3>2, <3>3
  <2>7. ASSUME NEW m \in messages', NEW o \in Of(m.session)', o.no = m.no
        PROVE  o = m
    <3>1. o \in messages \union {new} /\ m \in messages \union {new} /\ o.session = m.session
      BY <2>1 DEF Of
    <3>2. CASE o \in messages /\ m \in messages
      BY <2>7, <3>1, <3>2 DEF ThreadsInOrder, Of
    <3>3. CASE o = new /\ m \in messages
      BY <2>3, <2>4, <2>7, <3>1, <3>3 DEF Of
    <3>4. CASE m = new /\ o \in messages
      BY <2>3, <2>4, <2>7, <3>1, <3>4 DEF Of
    <3> QED
      BY <3>1, <3>2, <3>3, <3>4
  <2>8. ASSUME NEW m \in messages', m.parent # Null
        PROVE  \E o \in Of(m.session)' :
                 o.request = m.parent.request /\ o.role = m.parent.role /\ o.no < m.no
    <3>1. CASE m \in messages
      BY <2>5, <2>8, <3>1 DEF ThreadsInOrder
    <3>2. CASE m = new
      BY <2>4, <2>5, <2>8, <3>2
    <3> QED
      BY <2>1, <3>1, <3>2
  <2> QED
    BY <2>6, <2>7, <2>8 DEF ThreadsInOrder
<1> QED
  BY <1>1, <1>2

\* Threads is kept by the steps between a request's messages.
LEMMA WorkingThreads ==
  ASSUME TypeOK, Threads, NEW r \in Requests, Working(r)
  PROVE  Threads'
<1> USE DEF Threads
<1>1. Places /\ pc \in [Requests -> PCs] /\ kind \in [Requests -> Kinds \union {Null}]
  BY DEF TypeOK
<1>2. /\ UNCHANGED <<session, parent, number, messages>>
      /\ pc' = [pc EXCEPT ![r] = pc'[r]]
      /\ kind' = [kind EXCEPT ![r] = kind'[r]]
      /\ pc'[r] \in PCs \ {"new", "question", "answer"}
      /\ kind'[r] # kind[r] => pc[r] = "new" /\ kind'[r] \notin ChatKinds
      /\ pc'[r] = "number" => kind'[r] \in ChatKinds
      /\ pc[r] \notin {"question", "failed"}
      /\ pc[r] = "new" => kind'[r] \notin ChatKinds
  BY WorkingStep
<1>3. ThreadsInOrder'
  BY <1>2 DEF ThreadsInOrder, Of
<1>4. \A q \in Requests \ {r} : pc'[q] = pc[q] /\ kind'[q] = kind[q]
  BY <1>1, <1>2
<1>5. Places'
  BY <1>2, <1>4 DEF Places
<1>6. \A s : Of(s)' = Of(s)
  BY <1>2 DEF Of
<1>7. Numbered'
  BY <1>2, <1>4, <1>6 DEF Numbered
<1> QED
  BY <1>3, <1>5, <1>7

LEMMA ChattingThreads ==
  ASSUME TypeOK, Threads, NEW r \in Requests, Chatting(r)
  PROVE  Threads'
<1> USE DEF Threads
<1>0. /\ pc \in [Requests -> PCs] /\ kind \in [Requests -> Kinds \union {Null}]
      /\ session \in [Requests -> Sessions \union {Null}]
      /\ number \in [Requests -> (Nat \ {0}) \union {Null}]
      /\ parent \in [Requests -> Ids \union {Null}]
      /\ Null \notin Nat
  BY NullAssumption DEF TypeOK
<1>1. ASSUME Post(r) PROVE Threads'
  <2>1. PICK s \in Sessions :
          /\ session' = [session EXCEPT ![r] = s]
          /\ \E id \in Parents(s) : parent' = [parent EXCEPT ![r] = id]
          /\ ReadNumber(r, s)
    BY <1>1 DEF Post
  <2>2. PICK n \in NextNumber(s) : number' = [number EXCEPT ![r] = n]
    BY <2>1 DEF ReadNumber
  <2>3. PICK id \in Parents(s) : parent' = [parent EXCEPT ![r] = id]
    BY <2>1
  <2>4. UNCHANGED messages /\ pc' = [pc EXCEPT ![r] = "question"]
    BY <1>1 DEF Post, Go
  <2>5. kind'[r] \in ChatKinds /\ \A q \in Requests \ {r} : kind'[q] = kind[q]
    BY <1>0, <1>1 DEF Post
  <2>6. \A t : Of(t)' = Of(t)
    BY <2>4 DEF Of
  <2>7. ThreadsInOrder'
    BY <2>4 DEF ThreadsInOrder, Of
  <2>8. /\ n \in Nat \ {0}
        /\ \A k \in 1..(n - 1) : \E o \in Of(s) : o.no = k
        /\ \A m \in Of(s) : m.no < n
    BY <2>2, ReadNext
  <2>9. id # Null => \E o \in Of(s) :
                       o.request = id.request /\ o.role = id.role /\ o.no < n
    BY <2>8 DEF Parents
  <2>10. /\ pc'[r] = "question" /\ session'[r] = s /\ number'[r] = n /\ parent'[r] = id
         /\ \A q \in Requests \ {r} :
              /\ pc'[q] = pc[q] /\ session'[q] = session[q]
              /\ number'[q] = number[q] /\ parent'[q] = parent[q]
    BY <1>0, <2>1, <2>2, <2>3, <2>4
  <2>11. Places'
    BY <1>0, <2>5, <2>8, <2>10 DEF Places
  <2>12. Numbered'
    BY <2>5, <2>6, <2>8, <2>9, <2>10 DEF Numbered
  <2> QED
    BY <2>7, <2>11, <2>12
<1>2. ASSUME NEW role \in {"user", "assistant"}, NEW replied, NEW next \in PCs,
             pc[r] \in {"question", "answer"},
             next \notin {"new", "question", "answer", "failed"},
             Insert(r, role, replied, next),
             pc[r] = "question" => role = "user",
             replied # Null => \E o \in Of(session[r]) :
               o.request = replied.request /\ o.role = replied.role /\ o.no < number[r]
      PROVE  Threads'
  <2>1. /\ number[r] # Null /\ session[r] \in Sessions /\ kind[r] \in ChatKinds
    BY <1>2 DEF Places
  <2>2. ThreadsInOrder'
    BY <1>2, <2>1, InsertInOrder
  <2>3. \A s : Of(s) \subseteq Of(s)'
    BY <1>2, InsertGrows
  <2>4. /\ UNCHANGED <<kind, session>>
        /\ number'[r] = Null /\ parent'[r] = Null /\ pc'[r] \in {next, "failed"}
        /\ \A q \in Requests \ {r} :
             pc'[q] = pc[q] /\ number'[q] = number[q] /\ parent'[q] = parent[q]
    BY <1>0, <1>2 DEF Insert, Go
  <2>5. Places'
    BY <1>2, <2>1, <2>4 DEF Places
  <2>6. pc'[r] # "failed" => \E o \in Of(session[r])' : o.request = r /\ o.role = "user"
    <3>1. CASE pc[r] = "answer"
      BY <2>1, <2>3, <2>4, <3>1 DEF Numbered
    <3>2. CASE pc[r] = "question" /\ pc'[r] # "failed"
      <4> DEFINE new == [request |-> r, role |-> role, session |-> session[r],
                         no |-> number[r], parent |-> replied]
      <4>1. new \in messages'
        BY <1>0, <1>2, <3>2 DEF Insert, Go
      <4>2. new.session = session[r] /\ new.request = r /\ new.role = "user"
        BY <1>2, <3>2
      <4> HIDE DEF new
      <4> QED
        BY <2>4, <4>1, <4>2 DEF Of
    <3>3. pc[r] = "question" \/ pc[r] = "answer"
      BY <1>2
    <3> QED
      BY <3>1, <3>2, <3>3
  <2>7. Numbered'
    BY <1>2, <2>1, <2>3, <2>4, <2>6 DEF Numbered
  <2> QED
    BY <2>2, <2>5, <2>7
<1>3. ASSUME InsertQuestion(r) PROVE Threads'
  <2> DEFINE next == CASE kind[r] = "route_only" -> "done"
                       [] kind[r] = "general" -> "number"
                       [] OTHER -> "search"
  <2>1. next \in {"done", "number", "search"}
    OBVIOUS
  <2>2. parent[r] # Null => \E o \in Of(session[r]) :
          o.request = parent[r].request /\ o.role = parent[r].role /\ o.no < number[r]
    BY <1>3 DEF InsertQuestion, Numbered
  <2>3. Insert(r, "user", parent[r], next) /\ pc[r] = "question"
    BY <1>3 DEF InsertQuestion
  <2> HIDE DEF next
  <2> QED
    BY <1>2, <2>1, <2>2, <2>3 DEF PCs
<1>4. ASSUME InsertAnswer(r) PROVE Threads'
  <2> DEFINE asked == [request |-> r, role |-> "user"]
  <2>1. Insert(r, "assistant", asked, "done") /\ pc[r] = "answer"
    BY <1>4 DEF InsertAnswer
  <2>2. \E o \in Of(session[r]) :
          o.request = asked.request /\ o.role = asked.role /\ o.no < number[r]
    BY <2>1 DEF Numbered, Places
  <2> HIDE DEF asked
  <2> QED
    BY <1>2, <2>1, <2>2 DEF PCs
<1>5. ASSUME NumberAnswer(r) PROVE Threads'
  <2>1. PICK n \in NextNumber(session[r]) : number' = [number EXCEPT ![r] = n]
    BY <1>5 DEF NumberAnswer, ReadNumber
  <2>2. UNCHANGED <<kind, session, parent, messages>> /\ pc' = [pc EXCEPT ![r] = "answer"]
    BY <1>5 DEF NumberAnswer, Go
  <2>3. /\ n \in Nat \ {0}
        /\ \A k \in 1..(n - 1) : \E o \in Of(session[r]) : o.no = k
        /\ \A m \in Of(session[r]) : m.no < n
    BY <2>1, ReadNext
  <2>4. ThreadsInOrder' /\ \A s : Of(s)' = Of(s)
    BY <2>2 DEF ThreadsInOrder, Of
  <2>5. pc[r] = "number" /\ kind[r] \in ChatKinds
    BY <1>5 DEF NumberAnswer, Places
  <2>6. /\ pc'[r] = "answer" /\ number'[r] = n
        /\ \A q \in Requests \ {r} : pc'[q] = pc[q] /\ number'[q] = number[q]
    BY <1>0, <2>1, <2>2
  <2>7. Places'
    BY <1>0, <2>2, <2>3, <2>5, <2>6 DEF Places
  <2>8. \E o \in Of(session[r]) : o.request = r /\ o.role = "user" /\ o.no < n
    BY <2>3, <2>5 DEF Numbered
  <2>9. Numbered'
    BY <2>2, <2>3, <2>4, <2>6, <2>8 DEF Numbered
  <2> QED
    BY <2>4, <2>7, <2>9
<1> QED
  BY <1>1, <1>3, <1>4, <1>5 DEF Chatting

LEMMA OtherThreads ==
  ASSUME TypeOK, Threads,
         \/ \E r \in Requests : Fail(r)
         \/ \E d \in Documents : Replace(d)
         \/ \E n \in 1..Batch : Expire(n)
  PROVE  Threads'
<1> USE DEF Threads
<1>1. ASSUME NEW r \in Requests, Fail(r) PROVE Threads'
  <2>1. UNCHANGED <<kind, session, messages>>
    BY <1>1 DEF Fail
  <2>2. ThreadsInOrder' /\ \A s : Of(s)' = Of(s)
    BY <2>1 DEF ThreadsInOrder, Of
  <2>3. /\ pc'[r] = "failed" /\ number'[r] = Null /\ parent'[r] = Null
        /\ \A q \in Requests \ {r} :
             pc'[q] = pc[q] /\ number'[q] = number[q] /\ parent'[q] = parent[q]
    BY <1>1 DEF Fail, Go, TypeOK
  <2>4. Places'
    BY <1>1, <2>1, <2>3 DEF Fail, Places
  <2>5. Numbered'
    BY <2>1, <2>2, <2>3 DEF Numbered
  <2> QED
    BY <2>2, <2>4, <2>5
<1>2. ASSUME \/ \E d \in Documents : Replace(d)
             \/ \E n \in 1..Batch : Expire(n)
      PROVE  Threads'
  <2>1. UNCHANGED <<pc, kind, session, parent, number, messages>>
    BY <1>2 DEF Replace, Expire, chat
  <2> QED
    BY <2>1 DEF Places, Numbered, ThreadsInOrder, Of
<1> QED
  BY <1>1, <1>2

-------------------------------------------------------------------------------
(* Logs *)

\* A request that has no log yet appends one.
LEMMA LogAppended ==
  ASSUME logs \in Seq(Requests), Different(logs),
         NEW r \in Requests, ~Logged(r), logs' = Append(logs, r)
  PROVE  Different(logs') /\ \A l : Logged(l)' <=> Logged(l) \/ l = r
<1>1. /\ DOMAIN logs = 1..Len(logs) /\ Len(logs) \in Nat
      /\ DOMAIN logs' = 1..(Len(logs) + 1)
      /\ \A i \in 1..Len(logs) : logs'[i] = logs[i]
      /\ logs'[Len(logs) + 1] = r
  OBVIOUS
<1>2. \A i \in 1..(Len(logs) + 1) : i \in 1..Len(logs) \/ i = Len(logs) + 1
  BY <1>1
<1>3. Different(logs')
  BY <1>1, <1>2 DEF Different, Logged
<1>4. \A l : Logged(l)' <=> Logged(l) \/ l = r
  <2>1. Len(logs) + 1 \in DOMAIN logs' /\ \A i \in DOMAIN logs : i \in DOMAIN logs'
    BY <1>1
  <2> QED
    BY <1>1, <1>2, <2>1 DEF Logged
<1> QED
  BY <1>3, <1>4

LEMMA Counted ==
  ASSUME NEW a \in Nat, NEW b \in 1..a
  PROVE  (IF b + 1 <= a THEN a - (b + 1) + 1 ELSE 0) = a - b
  OBVIOUS

\* The clean-up deletes the first n logs.
LEMMA LogExpired ==
  ASSUME logs \in Seq(Requests), Different(logs), NEW n \in 1..Len(logs),
         logs' = SubSeq(logs, n + 1, Len(logs))
  PROVE  /\ Different(logs')
         /\ \A l : Logged(l)' <=> Logged(l) /\ l \notin {logs[i] : i \in 1..n}
<1>1. /\ DOMAIN logs = 1..Len(logs) /\ Len(logs) \in Nat
      /\ n + 1 \in Int /\ Len(logs) \in Int
      /\ \A i \in (n + 1)..Len(logs) : logs[i] \in Requests
  BY ElementOfSeq
<1>2. /\ Len(logs') = Len(logs) - n
      /\ \A i \in 1..(Len(logs) - n) : logs'[i] = logs[n + i]
      /\ logs' \in Seq(Requests)
  <2>1. logs' \in Seq(Requests) /\ Len(logs') = Len(logs) - n
    <3>1. logs' \in Seq(Requests)
      BY <1>1, SubSeqProperties
    <3>2. Len(logs') = IF n + 1 <= Len(logs) THEN Len(logs) - (n + 1) + 1 ELSE 0
      BY <1>1, SubSeqProperties
    <3>3. (IF n + 1 <= Len(logs) THEN Len(logs) - (n + 1) + 1 ELSE 0) = Len(logs) - n
      BY <1>1, Counted
    <3> QED
      BY <3>1, <3>2, <3>3
  <2>2. ASSUME NEW i \in 1..(Len(logs) - n) PROVE logs'[i] = logs[n + i]
    <3>1. i \in 1..(Len(logs) - (n + 1) + 1)
      BY <1>1
    <3>2. logs'[i] = logs[n + 1 + i - 1]
      BY <1>1, <3>1, SubSeqProperties
    <3>3. n + 1 + i - 1 = n + i
      BY <1>1
    <3> QED
      BY <3>2, <3>3
  <2> QED
    BY <2>1, <2>2
<1>3. DOMAIN logs' = 1..(Len(logs) - n)
  BY <1>2
<1>4. \A i \in 1..(Len(logs) - n) : n + i \in DOMAIN logs
  BY <1>1
<1>5. Different(logs')
  <2> SUFFICES ASSUME NEW i \in 1..(Len(logs) - n), NEW k \in 1..(Len(logs) - n),
                      logs[n + i] = logs[n + k]
               PROVE  i = k
    BY <1>2, <1>3 DEF Different
  <2>1. n + i = n + k
    BY <1>4 DEF Different
  <2> QED
    BY <1>1, <2>1
<1>6. ASSUME NEW l, Logged(l)' PROVE Logged(l) /\ l \notin {logs[i] : i \in 1..n}
  <2>1. PICK i \in 1..(Len(logs) - n) : l = logs[n + i]
    BY <1>2, <1>3, <1>6 DEF Logged
  <2>2. \A k \in 1..n : k \in DOMAIN logs /\ k # n + i
    BY <1>1
  <2> QED
    BY <1>4, <2>1, <2>2 DEF Logged, Different
<1>7. ASSUME NEW l, Logged(l), l \notin {logs[i] : i \in 1..n} PROVE Logged(l)'
  <2>1. PICK i \in 1..Len(logs) : l = logs[i]
    BY <1>1, <1>7 DEF Logged
  <2>2. i \notin 1..n
    BY <1>7, <2>1
  <2>3. i - n \in 1..(Len(logs) - n) /\ n + (i - n) = i
    BY <1>1, <2>2
  <2> QED
    BY <1>2, <1>3, <2>1, <2>3 DEF Logged
<1> QED
  BY <1>5, <1>6, <1>7

-------------------------------------------------------------------------------
(* Anchors *)

\* Steps that only move a request on.
Moves(r, p) == pc'[r] = p /\ \A q \in Requests \ {r} : pc'[q] = pc[q]

Kept == UNCHANGED <<live, logs, results, log, package, run, citations>>

LEMMA GoMoves ==
  ASSUME TypeOK, NEW r \in Requests, NEW p, Go(r, p)
  PROVE  Moves(r, p)
  BY DEF TypeOK, Go, Moves

\* They keep Anchors, unless they leave the run with something left to cite.
LEMMA Forward ==
  ASSUME TypeOK, Anchors, NEW r \in Requests, NEW p, Moves(r, p), Kept,
         p \in {"question", "search", "number", "answer", "done", "failed"},
         p \in {"question", "search"} => pc[r] \in Early,
         pc[r] # "done",
         p \in {"number", "answer", "done"} /\ RunExists(r) /\ run[r] = "succeeded"
           => package[r] \subseteq CitedBy(r),
         \A m \in messages' \ messages :
           m.role = "assistant" => m.request = r /\ p = "done"
  PROVE  Anchors'
<1> USE DEF Anchors
<1>1. pc'[r] = p /\ \A q \in Requests \ {r} : pc'[q] = pc[q]
  BY DEF Moves
<1>2. \A q \in Requests : log[q] \in Requests /\ (Logged(q)' <=> Logged(q))
                        /\ (RunExists(q)' <=> RunExists(q)) /\ CitedBy(q)' = CitedBy(q)
  BY DEF TypeOK, Logged, RunExists, CitedBy, Kept
<1>3. LogsOnce'
  BY <1>1, <1>2 DEF LogsOnce, Early, Different, Kept
<1>4. RunsLater'
  <2> SUFFICES ASSUME NEW q \in Requests, run[q] # Null
               PROVE  /\ pc'[q] \notin Early \union {"results", "package", "generate"}
                      /\ pc'[log[q]] \notin Early
                      /\ run[q] = "succeeded" => package[q] # {}
    BY DEF RunsLater, Kept
  <2>1. /\ pc[q] \notin Early \union {"results", "package", "generate"}
        /\ pc[log[q]] \notin Early
        /\ run[q] = "succeeded" => package[q] # {}
    BY DEF RunsLater
  <2> QED
    BY <1>1, <1>2, <2>1 DEF Early
<1>5. CitationsAnchored'
  BY <1>2 DEF CitationsAnchored, IsLive, RunExists, Logged, Kept
<1>6. \A c \in citations' : c.key \in package'[c.run]
  BY DEF Cited, Kept
<1>7. ASSUME NEW q \in Requests, pc'[q] \in {"number", "answer", "done"},
             RunExists(q), run[q] = "succeeded"
      PROVE  package[q] \subseteq CitedBy(q)
  BY <1>1, <1>7 DEF Cited
<1>8. ASSUME NEW m \in messages', m.role = "assistant"
      PROVE  pc'[m.request] = "done"
  <2>1. CASE m \in messages
    <3>1. m.request \in Requests /\ pc[m.request] = "done"
      BY <1>8, <2>1 DEF Cited, TypeOK
    <3> QED
      BY <1>1, <3>1
  <2> QED
    BY <1>1, <1>8, <2>1
<1> QED
  BY <1>2, <1>3, <1>4, <1>5, <1>6, <1>7, <1>8 DEF Cited, Kept

LEMMA InsertAnchors ==
  ASSUME TypeOK, Anchors, NEW r \in Requests, NEW role, NEW replied,
         NEW next \in {"search", "number", "done"}, Insert(r, role, replied, next),
         pc[r] \in {"question", "answer"},
         next = "search" => pc[r] = "question",
         role = "assistant" => next = "done"
  PROVE  Anchors'
<1>1. RunExists(r) /\ run[r] = "succeeded" => package[r] \subseteq CitedBy(r)
  BY DEF Anchors, RunsLater, RunExists, Early, Cited
<1>2. Kept
  BY DEF Insert, Kept, search, answer
<1>3. CASE Taken(session[r], number[r])
  <2>1. Moves(r, "failed") /\ messages' = messages
    BY <1>3, GoMoves DEF Insert
  <2> QED
    BY <1>2, <2>1, Forward
<1>4. CASE ~Taken(session[r], number[r])
  <2>1. Moves(r, next)
    BY <1>4, GoMoves DEF Insert
  <2>2. \A m \in messages' \ messages : m.request = r /\ m.role = role
    BY <1>4 DEF Insert
  <2> QED
    BY <1>1, <1>2, <2>1, <2>2, Forward DEF Early
<1> QED
  BY <1>3, <1>4

LEMMA ForwardAnchors ==
  ASSUME TypeOK, Anchors, NEW r \in Requests,
         \/ Chatting(r) \/ Start(r) \/ SearchProfile(r) \/ EndRun(r) \/ Fail(r)
  PROVE  Anchors'
<1>1. CASE Post(r)
  <2>1. Moves(r, "question") /\ Kept /\ messages' = messages /\ pc[r] = "new"
    BY <1>1, GoMoves DEF Post, Kept, search, answer
  <2> QED
    BY <2>1, Forward DEF Early
<1>2. CASE InsertQuestion(r)
  <2> DEFINE next == CASE kind[r] = "route_only" -> "done"
                       [] kind[r] = "general" -> "number"
                       [] OTHER -> "search"
  <2>1. next \in {"search", "number", "done"}
    OBVIOUS
  <2>2. Insert(r, "user", parent[r], next) /\ pc[r] = "question"
    BY <1>2 DEF InsertQuestion
  <2> HIDE DEF next
  <2> QED
    BY <2>1, <2>2, InsertAnchors
<1>3. CASE NumberAnswer(r)
  <2>1. Moves(r, "answer") /\ Kept /\ messages' = messages /\ pc[r] = "number"
    BY <1>3, GoMoves DEF NumberAnswer, Kept, search, answer
  <2>2. RunExists(r) /\ run[r] = "succeeded" => package[r] \subseteq CitedBy(r)
    BY <2>1 DEF Anchors, Cited
  <2> QED
    BY <2>1, <2>2, Forward
<1>4. CASE InsertAnswer(r)
  BY <1>4, InsertAnchors DEF InsertAnswer
<1>5. CASE Start(r)
  <2>1. Moves(r, "search") /\ Kept /\ messages' = messages /\ pc[r] = "new"
    BY <1>5, GoMoves DEF Start, Kept, chat, search, answer
  <2> QED
    BY <2>1, Forward DEF Early
<1>6. CASE SearchProfile(r)
  <2>1. Moves(r, "search") /\ Kept /\ messages' = messages /\ pc[r] = "search"
    BY <1>6 DEF SearchProfile, Moves, Kept, chat, answer
  <2> QED
    BY <2>1, Forward DEF Early
<1>7. CASE EndRun(r)
  <2>1. PICK p \in {"number", "done"} : Moves(r, p)
    BY <1>7, GoMoves DEF EndRun
  <2>2. Kept /\ messages' = messages /\ pc[r] = "cite"
    BY <1>7 DEF EndRun, Kept, chat, search, answer
  <2>3. RunExists(r) /\ run[r] = "succeeded" => package[r] \subseteq CitedBy(r)
    BY <1>7 DEF EndRun, Uncited
  <2> QED
    BY <2>1, <2>2, <2>3, Forward
<1>8. CASE Fail(r)
  <2>1. Moves(r, "failed") /\ Kept /\ messages' = messages /\ pc[r] # "done"
    BY <1>8, GoMoves DEF Fail, Ended, Kept, answer
  <2> QED
    BY <2>1, Forward
<1> QED
  BY <1>1, <1>2, <1>3, <1>4, <1>5, <1>6, <1>7, <1>8 DEF Chatting

\* A request without a run that leaves the other requests alone.
LEMMA RunlessStep ==
  ASSUME TypeOK, Anchors, NEW r \in Requests, NEW p, Moves(r, p),
         run[r] = Null, pc[r] \notin {"done", "failed"},
         p \in {"results", "package", "generate", "number", "done", "failed"},
         UNCHANGED <<live, run, citations, messages>>,
         \A q \in Requests \ {r} :
           results'[q] = results[q] /\ log'[q] = log[q] /\ package'[q] = package[q],
         Different(logs'),
         \A l \in Requests : Logged(l)' <=> (Logged(l) \/ (l = r /\ Logged(r)')),
         Logged(r)' /\ ~Logged(r) => pc[r] \in Early,
         results'[r] # results[r] => pc[r] \in Early \union {"results"},
         p = "results" => results'[r] = {}
  PROVE  Anchors'
<1> USE DEF Anchors
<1>1. pc'[r] = p /\ \A q \in Requests \ {r} : pc'[q] = pc[q]
  BY DEF Moves
<1>2. \A q \in Requests \ {r} : run[q] # Null =>
        /\ pc[q] \notin Early \union {"results", "package", "generate"}
        /\ pc[log[q]] \notin Early
        /\ run[q] = "succeeded" => package[q] # {}
        /\ log[q] \in Requests
        /\ pc'[q] = pc[q] /\ log'[q] = log[q] /\ package'[q] = package[q]
  BY <1>1 DEF RunsLater, TypeOK
<1>3. ASSUME NEW q \in Requests \ {r}, run[q] # Null PROVE RunExists(q)' <=> RunExists(q)
  <2>1. log[q] \in Requests /\ log'[q] = log[q]
    BY <1>2, <1>3
  <2>2. log[q] = r => pc[r] \notin Early
    BY <1>2, <1>3
  <2>3. \A l \in Requests : l # r \/ pc[r] \notin Early => (Logged(l)' <=> Logged(l))
    OBVIOUS
  <2> QED
    BY <2>1, <2>2, <2>3 DEF RunExists, Logged
<1>4. \A q \in Requests : CitedBy(q)' = CitedBy(q)
  BY DEF CitedBy
<1>5. \A q \in Requests : RunExists(q)' => q # r /\ RunExists(q)
  BY <1>3 DEF RunExists
<1>6. LogsOnce'
  <2>1. \A l \in Requests : Logged(l)' => pc'[l] \notin Early
    BY <1>1 DEF LogsOnce, Early
  <2>2. \A q \in Requests : pc'[q] \in Early \union {"results"} => results'[q] = {}
    BY <1>1 DEF LogsOnce, Early
  <2> QED
    BY <2>1, <2>2 DEF LogsOnce
<1>7. RunsLater'
  <2> SUFFICES ASSUME NEW q \in Requests, run[q] # Null
               PROVE  /\ pc'[q] \notin Early \union {"results", "package", "generate"}
                      /\ pc'[log'[q]] \notin Early
                      /\ run[q] = "succeeded" => package'[q] # {}
    BY DEF RunsLater
  <2>1. q \in Requests \ {r}
    OBVIOUS
  <2> QED
    BY <1>1, <1>2, <2>1 DEF Early
<1>8. ASSUME NEW c \in citations
      PROVE  /\ c.chunk # Null /\ IsLive(c.chunk)'
             /\ RunExists(c.run)'
             /\ c.chunk \in results'[log'[c.run]]
             /\ c.key \in package'[c.run]
  <2>1. c.run \in Requests
    BY DEF TypeOK
  <2>2. /\ c.chunk # Null /\ IsLive(c.chunk) /\ RunExists(c.run)
        /\ c.chunk \in results[log[c.run]] /\ c.key \in package[c.run]
    BY DEF CitationsAnchored, Cited
  <2>3. c.run # r /\ run[c.run] # Null /\ log[c.run] \in Requests
    BY <2>1, <2>2 DEF RunExists, TypeOK
  <2>4. log[c.run] = r => results'[r] = results[r]
    BY <2>2 DEF LogsOnce
  <2> QED
    BY <1>3, <2>1, <2>2, <2>3, <2>4 DEF IsLive
<1>9. CitationsAnchored'
  BY <1>8 DEF CitationsAnchored
<1>10. ASSUME NEW q \in Requests, pc'[q] \in {"number", "answer", "done"},
              RunExists(q)', run[q] = "succeeded"
       PROVE  package'[q] \subseteq CitedBy(q)
  BY <1>1, <1>5, <1>10 DEF Cited
<1>11. ASSUME NEW m \in messages, m.role = "assistant"
       PROVE  pc'[m.request] = "done"
  <2>1. m.request \in Requests /\ pc[m.request] = "done"
    BY <1>11 DEF Cited, TypeOK
  <2> QED
    BY <1>1, <2>1
<1> QED
  BY <1>4, <1>6, <1>7, <1>8, <1>9, <1>10, <1>11 DEF Cited

\* What RunlessStep asks of logs, when a step appends one or none.
LEMMA LogsStep ==
  ASSUME TypeOK, Anchors, NEW r \in Requests,
         \/ UNCHANGED logs
         \/ logs' = Append(logs, r) /\ pc[r] \in Early
  PROVE  /\ Different(logs')
         /\ \A l \in Requests : Logged(l)' <=> (Logged(l) \/ (l = r /\ Logged(r)'))
         /\ Logged(r)' /\ ~Logged(r) => pc[r] \in Early
<1>1. CASE UNCHANGED logs
  <2>1. logs' = logs /\ Different(logs)
    BY <1>1 DEF Anchors, LogsOnce
  <2>2. \A l : Logged(l)' <=> Logged(l)
    BY <2>1 DEF Logged
  <2> QED
    BY <2>1, <2>2
<1>2. CASE logs' = Append(logs, r) /\ pc[r] \in Early
  <2>1. ~Logged(r) /\ Different(logs) /\ logs \in Seq(Requests)
    BY <1>2 DEF Anchors, LogsOnce, TypeOK
  <2>2. Different(logs') /\ \A l : Logged(l)' <=> Logged(l) \/ l = r
    BY <1>2, <2>1, LogAppended
  <2> QED
    BY <1>2, <2>2
<1> QED
  BY <1>1, <1>2

\* Until it has made its run, a request has none.
LEMMA RunlessAnchors ==
  ASSUME TypeOK, Anchors, NEW r \in Requests,
         \/ CreateLog(r) \/ StoreResults(r) \/ LogDocument(r)
         \/ StartFromLog(r) \/ BuildPackage(r)
  PROVE  Anchors'
<1>0. /\ pc[r] \in Early \union {"results", "package"} => run[r] = Null
      /\ pc[r] \in Early \union {"results"} => results[r] = {}
  BY DEF Anchors, RunsLater, LogsOnce
<1>1. CASE CreateLog(r)
  <2>1. /\ Moves(r, "results") /\ pc[r] = "search" /\ logs' = Append(logs, r)
        /\ UNCHANGED <<live, run, citations, messages, results, log, package>>
    BY <1>1, GoMoves DEF CreateLog, chat, answer
  <2>2. pc[r] \in Early
    BY <2>1 DEF Early
  <2> QED
    BY <1>0, <2>1, <2>2, LogsStep, RunlessStep
<1>2. CASE StoreResults(r)
  <2>1. pc[r] = "results" /\ UNCHANGED <<live, run, citations, messages, log, package, logs>>
    BY <1>2 DEF StoreResults, chat, answer
  <2>2. PICK p \in {"package", "number", "done", "failed"} : Moves(r, p)
    BY <1>2, GoMoves DEF StoreResults
  <2>3. \A q \in Requests \ {r} : results'[q] = results[q]
    BY <1>2 DEF StoreResults, TypeOK
  <2> QED
    BY <1>0, <2>1, <2>2, <2>3, LogsStep, RunlessStep
<1>3. CASE LogDocument(r)
  <2>1. /\ Moves(r, "package") /\ pc[r] = "new" /\ logs' = Append(logs, r)
        /\ UNCHANGED <<live, run, citations, messages, log, package>>
    BY <1>3, GoMoves DEF LogDocument, chat, answer
  <2>2. \A q \in Requests \ {r} : results'[q] = results[q]
    BY <1>3 DEF LogDocument, TypeOK
  <2>3. pc[r] \in Early
    BY <2>1 DEF Early
  <2> QED
    BY <1>0, <2>1, <2>2, <2>3, LogsStep, RunlessStep
<1>4. CASE StartFromLog(r)
  <2>1. /\ Moves(r, "package") /\ pc[r] = "new"
        /\ UNCHANGED <<live, run, citations, messages, results, package, logs>>
    BY <1>4, GoMoves DEF StartFromLog, chat, search
  <2>2. \A q \in Requests \ {r} : log'[q] = log[q]
    BY <1>4 DEF StartFromLog, TypeOK
  <2>3. pc[r] \in Early
    BY <2>1 DEF Early
  <2> QED
    BY <1>0, <2>1, <2>2, <2>3, LogsStep, RunlessStep
<1>5. CASE BuildPackage(r)
  <2>1. /\ pc[r] = "package"
        /\ UNCHANGED <<live, run, citations, messages, results, log, logs>>
    BY <1>5 DEF BuildPackage, chat, search
  <2>2. PICK p \in {"generate", "failed"} : Moves(r, p)
    BY <1>5, GoMoves DEF BuildPackage
  <2>3. \A q \in Requests \ {r} : package'[q] = package[q]
    BY <1>5 DEF BuildPackage, TypeOK
  <2> QED
    BY <1>0, <2>1, <2>2, <2>3, LogsStep, RunlessStep
<1> QED
  BY <1>1, <1>2, <1>3, <1>4, <1>5

LEMMA CreateRunAnchors ==
  ASSUME TypeOK, Anchors, NEW r \in Requests, CreateRun(r)
  PROVE  Anchors'
<1> USE DEF Anchors
<1>1. /\ pc[r] = "generate" /\ run[r] = Null
      /\ UNCHANGED <<live, logs, results, log, package, citations, messages>>
  BY DEF CreateRun, RunsLater, chat, search
<1>2. /\ \A q \in Requests : run[q] = Null \/ q # r
      /\ \A q \in Requests \ {r} : run'[q] = run[q]
  BY <1>1 DEF CreateRun, TypeOK
<1>3. CASE ~Logged(log[r])
  <2>1. Moves(r, "failed") /\ Kept
    BY <1>1, <1>3, GoMoves DEF CreateRun, Kept, search
  <2> QED
    BY <1>1, <2>1, Forward
<1>4. CASE Logged(log[r])
  <2>1. Moves(r, "cite") /\ (run'[r] = "succeeded" => package[r] # {})
    BY <1>4, GoMoves DEF CreateRun, Blocked, TypeOK
  <2>2. pc'[r] = "cite" /\ \A q \in Requests \ {r} : pc'[q] = pc[q]
    BY <2>1 DEF Moves
  <2>3. log[r] \in Requests /\ pc[log[r]] \notin Early
    BY <1>4 DEF TypeOK, LogsOnce
  <2>4. \A q \in Requests : (Logged(q)' <=> Logged(q)) /\ CitedBy(q)' = CitedBy(q)
    BY <1>1 DEF Logged, CitedBy
  <2>5. \A q \in Requests \ {r} : RunExists(q)' <=> RunExists(q)
    BY <1>1, <1>2 DEF RunExists, Logged
  <2>6. LogsOnce'
    BY <1>1, <2>2, <2>4 DEF LogsOnce, Early
  <2>7. RunsLater'
    <3> SUFFICES ASSUME NEW q \in Requests, run'[q] # Null
                 PROVE  /\ pc'[q] \notin Early \union {"results", "package", "generate"}
                        /\ pc'[log[q]] \notin Early
                        /\ run'[q] = "succeeded" => package[q] # {}
      BY <1>1 DEF RunsLater
    <3>1. CASE q = r
      BY <2>1, <2>2, <2>3, <3>1 DEF Early
    <3>2. CASE q # r
      <4>1. /\ pc[q] \notin Early \union {"results", "package", "generate"}
            /\ pc[log[q]] \notin Early /\ log[q] \in Requests
            /\ run[q] = "succeeded" => package[q] # {}
        BY <1>2, <3>2 DEF RunsLater, TypeOK
      <4> QED
        BY <1>2, <2>2, <3>2, <4>1 DEF Early
    <3> QED
      BY <3>1, <3>2
  <2>8. ASSUME NEW c \in citations
        PROVE  /\ c.chunk # Null /\ IsLive(c.chunk)' /\ RunExists(c.run)'
               /\ c.chunk \in results[log[c.run]] /\ c.key \in package[c.run]
    <3>1. /\ c.chunk # Null /\ IsLive(c.chunk) /\ RunExists(c.run)
          /\ c.chunk \in results[log[c.run]] /\ c.key \in package[c.run]
      BY DEF CitationsAnchored, Cited
    <3>2. c.run \in Requests \ {r}
      BY <1>1, <3>1 DEF RunExists, TypeOK
    <3> QED
      BY <1>1, <2>5, <3>1, <3>2 DEF IsLive
  <2>9. CitationsAnchored'
    BY <1>1, <2>8 DEF CitationsAnchored
  <2>10. ASSUME NEW q \in Requests, pc'[q] \in {"number", "answer", "done"},
                RunExists(q)', run'[q] = "succeeded"
         PROVE  package[q] \subseteq CitedBy(q)
    BY <1>2, <2>2, <2>5, <2>10 DEF Cited
  <2>11. ASSUME NEW m \in messages, m.role = "assistant"
         PROVE  pc'[m.request] = "done"
    <3>1. m.request \in Requests /\ pc[m.request] = "done"
      BY <2>11 DEF Cited, TypeOK
    <3> QED
      BY <1>1, <2>2, <3>1
  <2> QED
    BY <1>1, <2>4, <2>6, <2>7, <2>8, <2>9, <2>10, <2>11 DEF Cited
<1> QED
  BY <1>3, <1>4

LEMMA CiteAnchors ==
  ASSUME TypeOK, Anchors, NEW r \in Requests, Cite(r)
  PROVE  Anchors'
<1> USE DEF Anchors
<1>1. PICK chunk \in Uncited(r) :
        IF RunExists(r) /\ chunk \in results[log[r]] /\ IsLive(chunk)
        THEN /\ citations' = citations \union {[run |-> r, key |-> chunk, chunk |-> chunk]}
             /\ UNCHANGED pc
        ELSE /\ Go(r, "failed")
             /\ UNCHANGED citations
  BY DEF Cite
<1>2. /\ pc[r] = "cite"
      /\ UNCHANGED <<live, logs, results, log, package, run, messages>>
  BY DEF Cite, chat, search
<1>3. CASE ~(RunExists(r) /\ chunk \in results[log[r]] /\ IsLive(chunk))
  <2>1. Moves(r, "failed") /\ Kept
    BY <1>1, <1>2, <1>3, GoMoves DEF Kept
  <2> QED
    BY <1>2, <2>1, Forward
<1>4. CASE RunExists(r) /\ chunk \in results[log[r]] /\ IsLive(chunk)
  <2> DEFINE new == [run |-> r, key |-> chunk, chunk |-> chunk]
  <2>1. citations' = citations \union {new} /\ UNCHANGED pc
    BY <1>1, <1>4
  <2>2. chunk \in package[r] /\ chunk # Null
    BY <1>1, BoundsAssumption, NullAssumption DEF Uncited, TypeOK, Chunks
  <2>3. new.run = r /\ new.key = chunk /\ new.chunk = chunk
    OBVIOUS
  <2> HIDE DEF new
  <2>4. \A q \in Requests : RunExists(q)' <=> RunExists(q)
    BY <1>2 DEF RunExists, Logged
  <2>5. \A q \in Requests : CitedBy(q) \subseteq CitedBy(q)'
    BY <2>1 DEF CitedBy
  <2>6. LogsOnce' /\ RunsLater'
    BY <1>2, <2>1 DEF LogsOnce, RunsLater, Logged, Different
  <2>7. ASSUME NEW c \in citations'
        PROVE  /\ c.chunk # Null /\ IsLive(c.chunk)' /\ RunExists(c.run)'
               /\ c.chunk \in results[log[c.run]] /\ c.key \in package[c.run]
    <3>1. CASE c \in citations
      <4>1. /\ c.chunk # Null /\ IsLive(c.chunk) /\ RunExists(c.run)
            /\ c.chunk \in results[log[c.run]] /\ c.key \in package[c.run]
            /\ c.run \in Requests
        BY <3>1 DEF CitationsAnchored, Cited, TypeOK
      <4> QED
        BY <1>2, <2>4, <4>1 DEF IsLive
    <3>2. CASE c = new
      BY <1>2, <1>4, <2>2, <2>3, <2>4, <3>2 DEF IsLive
    <3> QED
      BY <2>1, <3>1, <3>2
  <2>8. CitationsAnchored'
    BY <1>2, <2>7 DEF CitationsAnchored
  <2>9. Cited'
    BY <1>2, <2>1, <2>4, <2>5, <2>7 DEF Cited
  <2> QED
    BY <2>6, <2>8, <2>9
<1> QED
  BY <1>3, <1>4

\* The foreign key of the search results keeps the chunks that are cited.
LEMMA ReplaceAnchors ==
  ASSUME TypeOK, Anchors, NEW d \in Documents, Replace(d)
  PROVE  Anchors'
<1> USE DEF Anchors
<1>1. UNCHANGED <<pc, messages, logs, results, log, package, run>>
  BY DEF Replace, chat, search
<1>2. ASSUME NEW c \in citations
      PROVE  c.chunk # <<d, live[d]>> /\ IsLive(c.chunk)'
  <2>1. /\ RunExists(c.run) /\ c.chunk \in results[log[c.run]] /\ IsLive(c.chunk)
        /\ c.chunk \in Chunks
    BY DEF CitationsAnchored, TypeOK
  <2>2. c.chunk # <<d, live[d]>>
    BY <2>1 DEF RunExists, Logged, Replace, Referred
  <2>3. c.chunk = <<c.chunk[1], c.chunk[2]>> /\ c.chunk[1] \in Documents
    BY <2>1 DEF Chunks
  <2>4. c.chunk[1] # d
    BY <2>1, <2>2, <2>3 DEF IsLive
  <2> QED
    BY <2>1, <2>2, <2>3, <2>4 DEF IsLive, Replace, TypeOK
<1>3. citations' = citations
  BY <1>2 DEF Replace
<1>4. \A q \in Requests : (RunExists(q)' <=> RunExists(q)) /\ CitedBy(q)' = CitedBy(q)
  BY <1>1, <1>3 DEF RunExists, Logged, CitedBy
<1>5. LogsOnce' /\ RunsLater'
  BY <1>1 DEF LogsOnce, RunsLater, Logged, Different
<1>6. CitationsAnchored'
  BY <1>1, <1>2, <1>3 DEF CitationsAnchored, RunExists, Logged
<1>7. Cited'
  BY <1>1, <1>3, <1>4 DEF Cited
<1> QED
  BY <1>5, <1>6, <1>7

\* Results, runs and citations go with their log.
LEMMA ExpireAnchors ==
  ASSUME TypeOK, Anchors, NEW n \in 1..Batch, Expire(n)
  PROVE  Anchors'
<1> USE DEF Anchors
<1> DEFINE gone == {logs[i] : i \in 1..n}
<1>1. /\ n \in 1..Len(logs)
      /\ results' = [l \in Requests |-> IF l \in gone THEN {} ELSE results[l]]
      /\ citations' = {c \in citations : log[c.run] \notin gone}
      /\ logs' = SubSeq(logs, n + 1, Len(logs))
      /\ UNCHANGED <<live, pc, messages, log, package, run>>
  BY DEF Expire, chat
<1>2. Different(logs') /\ \A l : Logged(l)' <=> Logged(l) /\ l \notin gone
  BY <1>1, LogExpired DEF LogsOnce, TypeOK
<1> HIDE DEF gone
<1>3. \A q \in Requests : RunExists(q)' <=> RunExists(q) /\ log[q] \notin gone
  BY <1>1, <1>2 DEF RunExists, Logged
<1>4. ASSUME NEW q \in Requests, RunExists(q)' PROVE CitedBy(q)' = CitedBy(q)
  BY <1>1, <1>3, <1>4 DEF CitedBy
<1>5. LogsOnce' /\ RunsLater'
  BY <1>1, <1>2 DEF LogsOnce, RunsLater
<1>6. ASSUME NEW c \in citations'
      PROVE  /\ c.chunk # Null /\ IsLive(c.chunk)' /\ RunExists(c.run)'
             /\ c.chunk \in results'[log[c.run]] /\ c.key \in package[c.run]
  <2>1. c \in citations /\ log[c.run] \notin gone /\ c.run \in Requests
        /\ log[c.run] \in Requests
    BY <1>1 DEF TypeOK
  <2>2. /\ c.chunk # Null /\ IsLive(c.chunk) /\ RunExists(c.run)
        /\ c.chunk \in results[log[c.run]] /\ c.key \in package[c.run]
    BY <2>1 DEF CitationsAnchored, Cited
  <2> QED
    BY <1>1, <1>3, <2>1, <2>2 DEF IsLive
<1>7. CitationsAnchored'
  BY <1>1, <1>6 DEF CitationsAnchored
<1>8. Cited'
  BY <1>1, <1>3, <1>4, <1>6 DEF Cited
<1> QED
  BY <1>5, <1>7, <1>8

-------------------------------------------------------------------------------
(* Theorems *)

Inv == TypeOK /\ Threads /\ Anchors

LEMMA InitInv == Init => Inv
<1> SUFFICES ASSUME Init PROVE Inv
  OBVIOUS
<1>1. TypeOK
  BY InitTyped
<1>2. Threads
  BY DEF Init, Threads, Places, ThreadsInOrder, Numbered, ChatKinds, Ids
<1>3. Anchors
  BY DEF Init, Anchors, LogsOnce, RunsLater, CitationsAnchored, Cited, Different, Logged,
         RunExists
<1> QED
  BY <1>1, <1>2, <1>3 DEF Inv

LEMMA NextInv == Inv /\ [Next]_vars => Inv'
<1> SUFFICES ASSUME Inv, [Next]_vars PROVE Inv'
  OBVIOUS
<1> USE DEF Inv
<1>0. Places
  BY DEF Threads
<1>1. ASSUME NEW r \in Requests, Chatting(r) PROVE Inv'
  BY <1>0, <1>1, ChatTyped, ChattingThreads, ForwardAnchors DEF Chatting
<1>2. ASSUME NEW r \in Requests, Working(r) PROVE Inv'
  <2>1. TypeOK'
    BY <1>2, SearchTyped, AnswerTyped DEF Working
  <2>2. Threads'
    BY <1>2, WorkingThreads
  <2>3. Anchors'
    BY <1>2, ForwardAnchors, RunlessAnchors, CreateRunAnchors, CiteAnchors DEF Working
  <2> QED
    BY <2>1, <2>2, <2>3
<1>3. ASSUME NEW r \in Requests, Fail(r) PROVE Inv'
  BY <1>3, AnswerTyped, OtherThreads, ForwardAnchors
<1>4. ASSUME NEW d \in Documents, Replace(d) PROVE Inv'
  BY <1>4, OthersTyped, OtherThreads, ReplaceAnchors
<1>5. ASSUME NEW n \in 1..Batch, Expire(n) PROVE Inv'
  BY <1>5, OthersTyped, OtherThreads, ExpireAnchors
<1>6. CASE UNCHANGED vars
  BY <1>6 DEF vars, chat, search, answer, TypeOK, Threads, Places, ThreadsInOrder, Numbered,
       Of, Anchors, LogsOnce, RunsLater, CitationsAnchored, Cited, Different, Logged,
       RunExists, CitedBy, IsLive
<1> QED
  BY <1>1, <1>2, <1>3, <1>4, <1>5, <1>6 DEF Next, Chatting, Working

LEMMA Invariance == Spec => []Inv
<1> QED
  BY InitInv, NextInv, PTL DEF Spec

\* Every column stays in its type, for any number of concurrent requests.
THEOREM TypeCorrect == Spec => []TypeOK
<1>1. Inv => TypeOK
  BY DEF Inv
<1> QED
  BY <1>1, Invariance, PTL

\* Threads are numbered without holes and doubles and replies follow what they reply
\* to, although no post locks its session.
THEOREM ThreadsInOrderHolds == Spec => []ThreadsInOrder
<1>1. Inv => ThreadsInOrder
  BY DEF Inv, Threads
<1> QED
  BY <1>1, Invariance, PTL

\* Citations keep their chunk, their result and their run.
THEOREM CitationsAnchoredHolds == Spec => []CitationsAnchored
<1>1. Inv => CitationsAnchored
  BY DEF Inv, Anchors
<1> QED
  BY <1>1, Invariance, PTL

\* An answer from documents is a chat message only when all its citations are stored.
THEOREM AnswerIsCitedHolds == Spec => []AnswerIsCited
<1>1. Inv => AnswerIsCited
  <2> SUFFICES ASSUME Inv, NEW m \in messages, m.role = "assistant",
                      RunExists(m.request), run[m.request] = "succeeded"
               PROVE  CitedBy(m.request) # {} /\ CitedBy(m.request) = package[m.request]
    BY DEF AnswerIsCited
  <2>1. m.request \in Requests /\ pc[m.request] = "done"
    BY DEF Inv, TypeOK, Anchors, Cited
  <2>2. package[m.request] \subseteq CitedBy(m.request)
    BY <2>1 DEF Inv, Anchors, Cited
  <2>3. CitedBy(m.request) \subseteq package[m.request]
    BY DEF CitedBy, Inv, Anchors, Cited
  <2>4. package[m.request] # {}
    BY <2>1 DEF Inv, Anchors, RunsLater, RunExists
  <2> QED
    BY <2>2, <2>3, <2>4
<1> QED
  BY <1>1, Invariance, PTL

===============================================================================
