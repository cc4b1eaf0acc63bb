---------------------------- MODULE MCWriterPushed ----------------------------
(* One node, one configuration: every shard is uploaded as soon as it      *)
(* fills and kept on scratch, the mode of a sweep run without --defer-push *)
(* and --no-push.                                                          *)
EXTENDS ShardedWriter

CONSTANT n1

MCNode == {n1}
MCConfigs == {[n_rows |-> 3, shard_rows |-> 1, flush_every |-> 1, max_in_flight |-> 1,
               no_push |-> FALSE, defer_push |-> FALSE, auto_delete |-> FALSE]}
=============================================================================
