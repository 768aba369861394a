--------------------------- MODULE MCWorkspaceGate ---------------------------
(* An instance of WorkspaceGate for TLC: one of the contexts' leases may be    *)
(* given up while what its holder started goes on.                            *)
EXTENDS WorkspaceGate
=============================================================================
