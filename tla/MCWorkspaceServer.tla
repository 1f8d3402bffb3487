------------------------- MODULE MCWorkspaceServer -------------------------
(***************************************************************************)
(* Model checking WorkspaceServer: the constants are given in the .cfg.    *)
(***************************************************************************)
EXTENDS WorkspaceServer

=============================================================================
