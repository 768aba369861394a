-------------------------- MODULE MCResidentEngines --------------------------
(* Instances of ResidentEngines for TLC. *)
EXTENDS ResidentEngines
=============================================================================
