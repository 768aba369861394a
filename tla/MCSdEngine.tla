------------------------------ MODULE MCSdEngine ------------------------------
(* Instances of SdEngine for TLC: every run asks for the same model. *)
EXTENDS SdEngine
CONSTANTS r1, r2, m1
MCModelOf == [r \in Runs |-> m1]
=============================================================================
