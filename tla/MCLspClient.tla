---------------------------- MODULE MCLspClient ----------------------------
(***************************************************************************)
(* Model checking LspClient.                                               *)
(***************************************************************************)
EXTENDS LspClient

=============================================================================
