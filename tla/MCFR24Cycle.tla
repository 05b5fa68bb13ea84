---------------------------- MODULE MCFR24Cycle ----------------------------
(* Instance of FR24Cycle for TLC. *)
EXTENDS FR24Cycle
============================================================================
