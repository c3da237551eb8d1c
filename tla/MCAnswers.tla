-------------------------------- MODULE MCAnswers --------------------------------
(* Model of Answers for TLC. *)
EXTENDS Answers, TLC

Symmetry == Permutations(Requests) \union Permutations(Sessions) \union Permutations(Documents)

===============================================================================
