--------------------------- MODULE MCPipelineWorker ---------------------------
(* Model of PipelineWorker for TLC. *)
EXTENDS PipelineWorker, TLC

Symmetry == Permutations(Jobs) \union Permutations(Workers)

===============================================================================
