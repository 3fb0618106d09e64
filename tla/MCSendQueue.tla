---------------------------- MODULE MCSendQueue -----------------------------
(* The instance of SendQueue in which two tasks run at once.               *)
EXTENDS SendQueue

CONSTANTS c1, t1, t2

\* One call with two files, each of two chunks.
MCBatch == [c \in Calls |-> <<t1, t2>>]
MCFileSize == [t \in Tasks |-> 2]
=============================================================================
