--------------------------- MODULE MCLayerBatches ---------------------------
(* Three layers in two batches, one of them of two layers, and two sublayers that *)
(* share the middle layer, in one batch or two; eight command lines.              *)
EXTENDS LayerBatches

MCLayers   == <<"a", "b", "c">>
MCSizeGb   == [l \in {"a", "b", "c"} |-> IF l = "c" THEN 2 ELSE 1]
MCOutput   == [l \in {"a", "b"} |-> IF l = "a" THEN "b" ELSE "c"]
MCCommands ==
    LET All == {"a", "b", "c"}
        Command(k, same, skip, gb, w, s) ==
            [kind |-> k, sameNode |-> same, skipReclaim |-> skip, target |-> gb,
             wanted |-> w, saved |-> s]
    IN {Command("training", FALSE, FALSE, 2, All, {}), Command("training", TRUE, FALSE, 2, All, {}),
        Command("bases", FALSE, FALSE, 2, All, {}), Command("direct", FALSE, FALSE, 2, {"a", "b"}, {}),
        Command("direct", FALSE, TRUE, 2, {"a", "c"}, {}),
        Command("pairs", FALSE, FALSE, 2, {"a", "b"}, {}),
        Command("pairs", FALSE, FALSE, 2, {"a", "b"}, {"b"}),
        Command("pairs", TRUE, FALSE, 4, {"a", "b"}, {"a"})}

\* The hypothesis of the theorem about OneBatchResident.
ASSUME NeighboursAssumption == Neighbours
=============================================================================
