------------------------- MODULE MCVsLanguageClient -------------------------
(***************************************************************************)
(* Model checking VsLanguageClient: two executions of the restart command. *)
(***************************************************************************)
EXTENDS VsLanguageClient
=============================================================================
