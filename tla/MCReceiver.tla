----------------------------- MODULE MCReceiver -----------------------------
(* Instances of Receiver for TLC.                                          *)
EXTENDS Receiver, TLC

CONSTANTS h1, h2, h3, t1, t2, n1, v1, v2

\* Every transfer carries the same file name.
MCFileName == [t \in Ids |-> n1]

\* The source file grows from one chunk to two between two sends.
MCFileSize == [v \in Versions |-> IF v = v1 THEN 1 ELSE 2]

Request(t, m, s, o, b) ==
    [id |-> t, total |-> MCFileSize[m], sha |-> s, offset |-> o, body |-> b]

\* Any mix of the size, the digest and the bytes of the versions, fresh or
\* resumed at or past the end of the .part.
MCRequests ==
    {Request(t, m, s, o, b) :
        t \in Ids, m \in Versions, s \in Versions \cup {NoSha}, o \in 0..1, b \in Versions}

\* Whole uploads and resumes of a source file that does not change while it is sent.
MCFaithful ==
    {Request(t, v, v, o, v) : t \in Ids, v \in Versions, o \in 0..1}

\* Handlers are interchangeable: an inode is named by the handler that creates it.
MCSymmetry == Permutations(Handlers)
=============================================================================
