------------------------ MODULE MCWriterReconfigured ------------------------
(* One layer on one node whose command is run again with another           *)
(* --shard-rows, another number of rows or another upload mode.            *)
EXTENDS ShardedWriter

CONSTANT n1

Command(n_rows, shard_rows, no_push, auto_delete) ==
  [n_rows |-> n_rows, shard_rows |-> shard_rows, flush_every |-> 1, max_in_flight |-> 2,
   no_push |-> no_push, defer_push |-> FALSE, auto_delete |-> auto_delete]

MCNode == {n1}
MCConfigs == {Command(4, 1, FALSE, TRUE), Command(4, 2, FALSE, FALSE), Command(3, 2, TRUE, FALSE)}
=============================================================================
