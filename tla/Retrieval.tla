------------------------------ MODULE Retrieval ------------------------------
(***************************************************************************)
(* What an answer is generated from: the chunks of a document              *)
(* (Chunking), the searches of a question over them (search_compare.py,    *)
(* with Fusion for the hybrid profile and rerankers.py for the reranked    *)
(* one), the verdict on their results (retrieval_confidence.py) and the    *)
(* package of chunks that goes into the prompt (retrieval_context.py).     *)
(*                                                                         *)
(* A chunk is named by its place in the document.  Of the scores only what *)
(* the verdict tells apart is kept: which ranks of the two lists reach     *)
(* their threshold.  Lengths are counted in tokens.  Answers has the       *)
(* transactions these steps belong to, and what may happen between them.   *)
(***************************************************************************)
EXTENDS Chunking, Fusion, Integers, FiniteSets, SequencesExt

CONSTANTS Searched,      \* bound: the documents that are searched, with their headings
          Requests,      \* bound: the lists of profiles that are asked for
          TopK,          \* top_k
          Header,        \* length of the lines above the text of a candidate
          Separator,     \* length of the blank line between two candidates
          Mark,          \* length of "\n... [truncated]"
          MinTruncated,  \* MIN_TRUNCATED_CONTEXT_CHARS
          Budget,        \* max_context_chars
          ItemLimits,    \* bound: the values of max_items
          Neighbors      \* include_neighbors

Profiles == {"vector", "bm25_keyword", "hybrid_keyword_vector", "reranked_vector_cosine"}

\* A profile is asked for once, or "profiles must be unique".
ASSUME RetrievalAssumption ==
  /\ \A q \in Requests : q \in Seq(Profiles) /\ IsInjective(q)
  /\ TopK \in 1 .. CandidateTopK
  /\ {Header, Separator, Mark, MinTruncated, Budget} \union ItemLimits \subseteq Nat \ {0}
  /\ Mark < MinTruncated /\ MinTruncated + Separator < Budget
  /\ Neighbors \in BOOLEAN

VARIABLES
  stage,    \* of the question
  maxItems, \* max_items
  request,  \* the profiles that are still to be searched
  nearest,  \* the chunks with an embedding, the nearest to the question first
  matches,  \* the chunks with a term of the question, the best BM25 score first
  strong,   \* how many of nearest and of matches reach the threshold of their score
  failed,   \* the profiles that failed
  results,  \* search_log_results
  todo,     \* the results still to be packed
  used,     \* used_chars
  entries   \* the candidates of the package

question == <<maxItems, nearest, matches, strong>>
vars == <<document, stage, request, question, failed, results, todo, used, entries>>

Ids == DOMAIN chunks

\* What speaks for a result: the vector score, the keyword score or the score of the
\* reranker reaches its threshold, or both searches have found the chunk.
Evidence == {"vector", "keyword", "reranker", "agreement"}

Result == [profile : Profiles, rank : 1 .. TopK, chunk : Nat, evidence : SUBSET Evidence]

Reasons == {"none", "max_items_exceeded", "low_confidence", "no_relevant_context",
            "source_context_missing", "context_budget_exceeded"}

Entry == [chunk : Nat, profile : Profiles, reason : Reasons, length : Nat,
          supporting : Nat]

TypeOK ==
  /\ ChunkerTypeOK
  /\ stage \in {"cutting", "searching", "packing"}
  /\ maxItems \in Nat \ {0}
  /\ request \in Seq(Profiles)
  /\ nearest \in Seq(Ids) /\ matches \in Seq(Ids)
  /\ strong \in [vector : Nat, keyword : Nat]
  /\ failed \subseteq Profiles
  /\ results \subseteq Result
  /\ todo \in Seq(Result)
  /\ used \in Nat
  /\ entries \in Seq(Entry)

Init ==
  /\ ChunkerInit
  /\ stage = "cutting"
  /\ maxItems = 1
  /\ request = <<>> /\ nearest = <<>> /\ matches = <<>>
  /\ strong = [vector |-> 0, keyword |-> 0]
  /\ failed = {} /\ results = {} /\ todo = <<>> /\ used = 0 /\ entries = <<>>

Cut ==
  /\ ChunkerNext
  /\ UNCHANGED <<stage, request, question, failed, results, todo, used, entries>>

\* A question is asked.  Some chunks may not be embedded yet, or be left out by the
\* filters of the search.
Ask ==
  /\ stage = "cutting" /\ ChunkerDone /\ <<position, headings>> \in Searched
  /\ stage' = "searching"
  /\ request' \in Requests
  /\ maxItems' \in ItemLimits
  /\ nearest' \in SetToAllKPermutations(Ids)
  /\ matches' \in SetToAllKPermutations(Ids)
  /\ strong' \in [vector : 0 .. Len(nearest'), keyword : 0 .. Len(matches')]
  /\ UNCHANGED <<document, failed, results, todo, used, entries>>

-------------------------------------------------------------------------------
(* The profiles *)

Shortest(i, j) == IF i <= j THEN i ELSE j

\* Evidence that speaks for the ranks up to n.
Reached(kind, rank, n) == IF rank <= n THEN {kind} ELSE {}

ResultsOf(profile, list, evidence) ==
  {[profile |-> profile, rank |-> r, chunk |-> list[r], evidence |-> evidence[r]] :
     r \in 1 .. Shortest(TopK, Len(list))}

ByVector ==
  ResultsOf("vector", nearest,
            [r \in DOMAIN nearest |-> Reached("vector", r, strong.vector)])

ByKeyword ==
  ResultsOf("bm25_keyword", matches,
            [r \in DOMAIN matches |-> Reached("keyword", r, strong.keyword)])

\* The hybrid profile fuses the first CandidateTopK of both searches.
RankIn(list, c) ==
  LET at == {r \in 1 .. Shortest(CandidateTopK, Len(list)) : list[r] = c}
  IN  IF at = {} THEN 0 ELSE CHOOSE r \in at : TRUE

Merged ==
  {c \in {[chunk |-> c, vector |-> RankIn(nearest, c), keyword |-> RankIn(matches, c)] :
             c \in Ids} : Found(c)}

\* The elements of S, sorted: x comes before y for <<x, y>> in R.
InOrder(S, R) ==
  [i \in 1 .. Cardinality(S) |->
     CHOOSE x \in S : Cardinality({y \in S : <<y, x>> \in R}) = i - 1]

Fused == InOrder(Merged, {p \in Merged \X Merged : Before(p[1], p[2])})

FusedEvidence(c) ==
  (IF Agreed(c) THEN {"agreement"} ELSE {})
    \union (IF c.vector # 0 THEN Reached("vector", c.vector, strong.vector) ELSE {})
    \union (IF c.keyword # 0 THEN Reached("keyword", c.keyword, strong.keyword) ELSE {})

ByBoth ==
  LET list == Fused IN
  ResultsOf("hybrid_keyword_vector", [r \in DOMAIN list |-> list[r].chunk],
            [r \in DOMAIN list |-> FusedEvidence(list[r])])

\* The reranker returns up to TopK of the candidates, in an order of its own, numbered
\* from 1.  Nothing keeps a remote one from returning a candidate twice.  The scores up
\* to rank s reach the threshold; only whether the first one does will matter.
Reranked(list, s) ==
  ResultsOf("reranked_vector_cosine", list,
            [r \in DOMAIN list |->
               Reached("reranker", r, s)
                 \union Reached("vector", RankIn(nearest, list[r]), strong.vector)])

Candidates == {nearest[r] : r \in 1 .. Shortest(CandidateTopK, Len(nearest))}

ByReranker ==
  {Reranked(list, s) :
     list \in UNION {[1 .. k -> Candidates] :
                       k \in 0 .. Shortest(TopK, Cardinality(Candidates))},
     s \in 0 .. 1}

SearchProfile ==
  /\ stage = "searching" /\ request # <<>>
  /\ \/ Head(request) = "vector" /\ results' = results \union ByVector
     \/ Head(request) = "bm25_keyword" /\ results' = results \union ByKeyword
     \/ Head(request) = "hybrid_keyword_vector" /\ results' = results \union ByBoth
     \/ /\ Head(request) = "reranked_vector_cosine"
        /\ \E found \in ByReranker : results' = results \union found
  /\ request' = Tail(request)
  /\ UNCHANGED <<document, stage, question, failed, todo, used, entries>>

\* An invalid input, or a provider that does not answer.
FailProfile ==
  /\ stage = "searching" /\ request # <<>>
  /\ failed' = failed \union {Head(request)}
  /\ request' = Tail(request)
  /\ UNCHANGED <<document, stage, question, results, todo, used, entries>>

-------------------------------------------------------------------------------
(* The verdict and the package *)

\* assess_profile_retrieval_confidence looks at the first result only.
AnswerableBy(profile) ==
  \E r \in results : r.profile = profile /\ r.rank = 1 /\ r.evidence # {}

\* Mutant: a failed profile names the verdict.
Verdict_Failed ==
  IF \E p \in Profiles \ failed : AnswerableBy(p) THEN "answerable"
  ELSE IF failed # {} THEN "failed"
  ELSE IF results # {} THEN "low_confidence" ELSE "no_relevant_context"

Verdict ==
  IF \E p \in Profiles \ failed : AnswerableBy(p) THEN "answerable"
  ELSE IF results # {} THEN "low_confidence" ELSE "no_relevant_context"

\* PROFILE_PRIORITY, then the rank
Priority(p) ==
  CASE p = "reranked_vector_cosine" -> 0
    [] p = "hybrid_keyword_vector" -> 1
    [] p = "bm25_keyword" -> 2
    [] p = "vector" -> 10

PackedBefore(r, s) ==
  \/ Priority(r.profile) < Priority(s.profile)
  \/ r.profile = s.profile /\ r.rank < s.rank

Sorted(rs) == InOrder(rs, {p \in rs \X rs : PackedBefore(p[1], p[2])})

OpenLog ==
  /\ stage = "searching" /\ request = <<>>
  /\ stage' = "packing"
  /\ todo' = Sorted(results)
  /\ UNCHANGED <<document, request, question, failed, results, used, entries>>

\* candidates_by_chunk_id does not have the results beyond max_items.
Keyed == {i \in DOMAIN entries : entries[i].reason # "max_items_exceeded"}

Same(r) == {i \in Keyed : entries[i].chunk = r.chunk}

Included == {i \in DOMAIN entries : entries[i].reason = "none"}

\* The text of chunk d, nothing if there is no such chunk.
Text(d) == IF d \in Ids THEN Tokens(chunks[d].first, chunks[d].last) ELSE 0

\* The chunk and, if asked for, the ones before and after it.
Rendered(c) ==
  Header + Text(c) + IF Neighbors THEN Text(c - 1) + Text(c + 1) ELSE 0

Gap == IF Included = {} THEN 0 ELSE Separator
Remaining == Budget - used - Gap

\* Mutant: whatever room is left is filled.
NoRoom_Used == Remaining <= 0

NoRoom == Remaining <= 0 \/ (entries # <<>> /\ Remaining < MinTruncated)

\* _truncate_text: the lengths a text may be cut to.  White space at the cut is removed,
\* here at most one token of it.
Kept(text) ==
  IF text <= Remaining THEN {text}
  ELSE IF Remaining < Mark THEN {0} ELSE {Remaining, Remaining - 1}

Enter(r, reason, length) ==
  entries' = Append(entries, [chunk |-> r.chunk, profile |-> r.profile, reason |-> reason,
                              length |-> length, supporting |-> 0])

\* One result after the other, the best first.
Support(r) ==
  /\ Same(r) # {}
  /\ \E i \in Same(r) : entries' = [entries EXCEPT ![i].supporting = @ + 1]
  /\ UNCHANGED used

ExceedItems(r) ==
  /\ Same(r) = {} /\ Cardinality(Keyed) >= maxItems
  /\ Enter(r, "max_items_exceeded", 0)
  /\ UNCHANGED used

New(r) == Same(r) = {} /\ Cardinality(Keyed) < maxItems

Withhold(r) ==
  /\ New(r) /\ Verdict # "answerable"
  /\ Enter(r, Verdict, 0)
  /\ UNCHANGED used

\* The result was deleted with its log while the package is built.
Miss(r) ==
  /\ New(r) /\ Verdict = "answerable"
  /\ Enter(r, "source_context_missing", 0)
  /\ UNCHANGED used

ExceedBudget(r) ==
  /\ New(r) /\ Verdict = "answerable" /\ NoRoom
  /\ Enter(r, "context_budget_exceeded", 0)
  /\ UNCHANGED used

Include(r) ==
  /\ New(r) /\ Verdict = "answerable" /\ ~NoRoom
  /\ \E length \in Kept(Rendered(r.chunk)) :
       Enter(r, "none", length) /\ used' = used + Gap + length

Pack ==
  /\ stage = "packing" /\ todo # <<>>
  /\ LET r == Head(todo) IN
       \/ Support(r) \/ ExceedItems(r) \/ Withhold(r)
       \/ Miss(r) \/ ExceedBudget(r) \/ Include(r)
  /\ todo' = Tail(todo)
  /\ UNCHANGED <<document, stage, request, question, failed, results>>

Next == Cut \/ Ask \/ SearchProfile \/ FailProfile \/ OpenLog \/ Pack

Spec == Init /\ [][Next]_vars

-------------------------------------------------------------------------------
(* Properties *)

\* If both searches of a hybrid profile have found the same chunk, the context of the
\* answer is not withheld: the verdict looks at the first result only, and fusion puts
\* a chunk that both have found there, however far down their lists it is.
AgreementIsAnswerable ==
  /\ stage = "packing" /\ ShortLists
  /\ \E r \in results : r.profile = "hybrid_keyword_vector"
  /\ \E c \in Ids : RankIn(nearest, c) # 0 /\ RankIn(matches, c) # 0
  => Verdict = "answerable"

\* The texts of a package fit into its budget, no text in it is a mere remnant
\* (but for the white space at its cut), and what the budget leaves out is the tail:
\* nothing is included behind it.
BudgetCutsATail ==
  /\ used <= Budget
  /\ \A i \in Included :
       \/ entries[i].length = Rendered(entries[i].chunk)
       \/ entries[i].length >= MinTruncated - 1
  /\ \A i \in Included, j \in DOMAIN entries :
       entries[j].reason = "context_budget_exceeded" => i < j

===============================================================================
