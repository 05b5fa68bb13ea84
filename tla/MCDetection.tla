---------------------------- MODULE MCDetection ----------------------------
(* Instances of Detection for TLC: position 0 is outside the areas. *)
EXTENDS Detection, TLC

MCRegionOf == Grid :> "region" @@ FR24 :> "cluster"
MCProvider == {Grid, FR24}
MCRegion == {"region", "cluster"}

Says(pos) == [pos |-> pos, low |-> TRUE, airline |-> FALSE, altLow |-> TRUE]
MCReport == {Says(0), Says(1)}
============================================================================
