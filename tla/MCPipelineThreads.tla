------------------------- MODULE MCPipelineThreads -------------------------
(* Small instances of PipelineThreads for TLC. *)
EXTENDS PipelineThreads, TLC

Symmetry == Permutations(Threads) \cup Permutations(Pipelines)
=============================================================================
