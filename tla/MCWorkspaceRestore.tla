-------------------------- MODULE MCWorkspaceRestore --------------------------
(* Instances of WorkspaceRestore for TLC: the .cfg files choose the bounds. *)
EXTENDS WorkspaceRestore
=============================================================================
