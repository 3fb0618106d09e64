--------------------------- MODULE MCPairingSheet ---------------------------
(* Instances of PairingSheet for TLC.                                      *)
EXTENDS PairingSheet

MCSymmetry == Permutations(Peers) \cup Permutations(Calls) \cup Permutations(Taps)
=============================================================================
