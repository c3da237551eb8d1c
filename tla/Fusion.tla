-------------------------------- MODULE Fusion --------------------------------
(***************************************************************************)
(* Reciprocal rank fusion of vector and keyword search                     *)
(* (app/core/hybrid_search.py, reciprocal_rank_fuse_results).              *)
(*                                                                         *)
(* A candidate is a chunk with its rank in each of the two result lists,   *)
(* 0 where it is not in the list.  Scores are fractions and compared       *)
(* exactly; the code adds floating-point numbers.                          *)
(***************************************************************************)
EXTENDS Naturals

CONSTANTS RrfK,          \* rrf_k
          CandidateTopK  \* candidate_top_k, the length of the two lists

ASSUME FusionAssumption == RrfK \in Nat \ {0} /\ CandidateTopK \in Nat \ {0}

Ranks == 0 .. CandidateTopK

Candidate == [chunk : Nat, vector : Ranks, keyword : Ranks]

Found(c)  == c.vector # 0 \/ c.keyword # 0
Agreed(c) == c.vector # 0 /\ c.keyword # 0

\* 1 / (rrf_k + rank), summed over the lists the candidate is in
Denominator(c) ==
  IF Agreed(c) THEN (RrfK + c.vector) * (RrfK + c.keyword)
  ELSE RrfK + c.vector + c.keyword
Numerator(c) ==
  IF Agreed(c) THEN (RrfK + c.vector) + (RrfK + c.keyword) ELSE 1

\* Mutant: the better of the two contributions counts, the other is dropped.
Above_Best(c, d) ==
  LET best(e) == IF Agreed(e) THEN IF e.vector < e.keyword THEN e.vector ELSE e.keyword
                 ELSE e.vector + e.keyword
  IN  best(c) < best(d)

Above(c, d) == Numerator(c) * Denominator(d) > Numerator(d) * Denominator(c)

\* Ties are decided by the rank in the vector list, a candidate that is not in it
\* coming last, then in the keyword list, then by the chunk.
Sooner(r, s) == r # 0 /\ (s = 0 \/ r < s)

Before(c, d) ==
  \/ Above(c, d)
  \/ /\ ~Above(d, c)
     /\ \/ Sooner(c.vector, d.vector)
        \/ c.vector = d.vector /\ Sooner(c.keyword, d.keyword)
        \/ c.vector = d.vector /\ c.keyword = d.keyword /\ c.chunk < d.chunk

\* The lists are short enough for two ranks at their ends to outweigh a single first
\* rank.  With the rrf_k of 60 and four candidates per result asked for, this is a
\* top_k of at most 15.
ShortLists == CandidateTopK < RrfK + 2

===============================================================================
