--------------------------- MODULE MCWriterTwoNodes ---------------------------
(* The same layer resumed on either of two nodes, each with scratch files  *)
(* its own earlier runs left.                                              *)
EXTENDS ShardedWriter

CONSTANTS n1, n2

MCNode == {n1, n2}
MCConfigs == {[n_rows |-> 2, shard_rows |-> 2, flush_every |-> 1, max_in_flight |-> 1,
               no_push |-> TRUE, defer_push |-> FALSE, auto_delete |-> FALSE]}
=============================================================================
