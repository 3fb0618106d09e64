---------------------------- MODULE MCDiscovery -----------------------------
(* Instances of Discovery for TLC: two starts and a stop, with one other   *)
(* device on the network.                                                  *)
EXTENDS Discovery

=============================================================================
