------------------------- MODULE MCServerLifecycle --------------------------
(* The instance of ServerLifecycle for TLC.                                *)
EXTENDS ServerLifecycle
=============================================================================
