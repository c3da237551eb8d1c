---------------------------- MODULE MCEmbeddingJobs ----------------------------
(* Model of EmbeddingJobs for TLC. *)
EXTENDS EmbeddingJobs, TLC

Symmetry == Permutations(Chunks) \union Permutations(Workers)

===============================================================================
