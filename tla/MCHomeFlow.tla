----------------------------- MODULE MCHomeFlow -----------------------------
(* Instances of HomeFlow for TLC.                                          *)
EXTENDS HomeFlow

=============================================================================
