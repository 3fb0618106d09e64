-------------------------- MODULE MCTransferBoard ---------------------------
(* Instances of TransferBoard for TLC.                                     *)
EXTENDS TransferBoard

CONSTANTS c1, t1, t2

\* One call with two files, the second one empty.
MCBatch == [c \in Calls |-> <<t1, t2>>]
MCFileSize == [t \in Tasks |-> IF t = t1 THEN 1 ELSE 0]
=============================================================================
