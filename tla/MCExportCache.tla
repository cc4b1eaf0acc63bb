--------------------------- MODULE MCExportCache ---------------------------
(* Two nodes, one with a small GPU and one with a larger; the default batch *)
(* is too large for both and, on the small one, even after one retry.       *)
EXTENDS ExportCache

MCCap      == [n \in Nodes |-> IF n = "mauao" THEN 3 ELSE 6]
MCSweepCap == [n \in Nodes |-> IF n = "mauao" THEN 2 ELSE 5]
MCTables   == {[n \in Nodes |-> 0], [n \in Nodes |-> IF n = "mauao" THEN 2 ELSE 0]}
=============================================================================
