--------------------------- MODULE MCBoundarySync ---------------------------
(* Instance of BoundarySync for TLC: the last source names the units differently. *)
EXTENDS BoundarySync, TLC

CONSTANTS icmbio, cnuc, u1, x1

MCUnitOf == icmbio :> {u1} @@ cnuc :> {x1}
MCBackoff == <<1, 2>>
=============================================================================
