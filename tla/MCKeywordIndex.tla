---------------------------- MODULE MCKeywordIndex ----------------------------
(* Two documents that share term 1, and one without terms. *)
EXTENDS KeywordIndex

CONSTANTS a, b, e

MCDocs == {a, b, e}
MCTerms == {1, 2, 3}
MCTermsOf == [d \in MCDocs |-> IF d = a THEN {1, 2} ELSE IF d = b THEN {1, 3} ELSE {}]

===============================================================================
