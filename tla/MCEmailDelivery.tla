-------------------------- MODULE MCEmailDelivery --------------------------
(* Instance of EmailDelivery for TLC. *)
EXTENDS EmailDelivery

MCPhases == {"shadow", "live"}
============================================================================
