---------------------------- MODULE MCPipelineJobs ----------------------------
(* Model of PipelineJobs for TLC: two jobs, two workers, two attempts.  The
   jobs are interchangeable, and so are the workers. *)
EXTENDS PipelineJobs, TLC

Symmetry == Permutations(Jobs) \union Permutations(Workers)
===============================================================================
