------------------------------ MODULE MCRetrieval ------------------------------
(* All documents of up to MaxUnits units of up to MaxTokens tokens are cut; those of
   MCSearched, which have three chunks, are searched. *)
EXTENDS Retrieval

CONSTANTS MaxUnits, MaxTokens

\* The position of every unit of a document whose units have these many tokens.
Positions(tokens) ==
  LET before[i \in 0 .. Len(tokens)] == IF i = 0 THEN 0 ELSE before[i - 1] + tokens[i]
  IN  [i \in 1 .. Len(tokens) + 1 |-> before[i - 1]]

MCDocuments == {Positions(t) : t \in UNION {[1 .. n -> 1 .. MaxTokens] : n \in 0 .. MaxUnits}}

\* Three chunks: the first two overlap, the third begins with a heading.
MCSearched == {<<Positions(<<1, 2, 1, 2>>), {4}>>}

MCRequests ==
  {<<"vector", "bm25_keyword", "hybrid_keyword_vector">>,
   <<"hybrid_keyword_vector", "reranked_vector_cosine">>}

===============================================================================
