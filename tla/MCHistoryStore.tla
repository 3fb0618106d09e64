--------------------------- MODULE MCHistoryStore ---------------------------
(* Instances of HistoryStore for TLC.                                      *)
EXTENDS HistoryStore

CONSTANTS o1, o2, o3, o4, r1, r2, r3

\* Three additions and a clear, in any order, a crash between any two steps.
MCWork == [o \in Ops |-> CASE o = o1 -> r1 [] o = o2 -> r2 [] o = o3 -> r3 [] OTHER -> Clear]
=============================================================================
