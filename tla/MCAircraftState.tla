------------------------- MODULE MCAircraftState -------------------------
(* Instances of AircraftState for TLC. *)
EXTENDS AircraftState

MCTimes == 0..2
==========================================================================
