--------------------------- MODULE MCEmbeddingWorker ---------------------------
(* Model of EmbeddingWorker for TLC. *)
EXTENDS EmbeddingWorker, TLC

Symmetry ==
  Permutations(Chunks) \union Permutations(Profiles) \union Permutations(Workers)

===============================================================================
