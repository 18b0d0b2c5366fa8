----------------------------- MODULE MCPipelines ----------------------------
(* An instance of Pipelines: two pipelines on one thread with two slots, a   *)
(* link of one queue, tables with meters and tables without a profile.       *)
EXTENDS Pipelines, TLC

OneLink == {[kind |-> "link", n_rxq |-> 1, n_txq |-> 1]}
Balanced == {{"lb"}}
Metered == {{"fwd", "mtr"}}
Twins == Permutations(Pipes)
=============================================================================
