---------------------------- MODULE MCSweepLoop ----------------------------
(* All loops with two layers of eight rows in shards of three (the last    *)
(* one short): blocks of two to four rows, so that blocks and shards end   *)
(* at different rows, over three runs and two out-of-memory retries.       *)
EXTENDS SweepLoop

MCDataset == <<TRUE, FALSE, TRUE, TRUE, FALSE, TRUE, TRUE, TRUE, FALSE, TRUE, TRUE, TRUE>>
=============================================================================
