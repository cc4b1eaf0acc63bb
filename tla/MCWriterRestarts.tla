--------------------------- MODULE MCWriterRestarts ---------------------------
(* One layer of five rows in shards of two, its command run again on the   *)
(* same node after crashes, failures and clean-ups, in any upload mode.    *)
EXTENDS ShardedWriter

CONSTANT n1

Mode(no_push, defer_push, auto_delete, max_in_flight) ==
  [n_rows |-> 5, shard_rows |-> 2, flush_every |-> 2, max_in_flight |-> max_in_flight,
   no_push |-> no_push, defer_push |-> defer_push, auto_delete |-> auto_delete]

MCNode == {n1}
MCConfigs == {Mode(TRUE, FALSE, FALSE, 1), Mode(FALSE, FALSE, TRUE, 2),
              Mode(FALSE, FALSE, FALSE, 1), Mode(FALSE, TRUE, TRUE, 2)}
=============================================================================
