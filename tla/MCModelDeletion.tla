---------------------------- MODULE MCModelDeletion ----------------------------
(* Instances of ModelDeletion for TLC: the .cfg files choose the bounds. *)
EXTENDS ModelDeletion
=============================================================================
