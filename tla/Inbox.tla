------------------------------- MODULE Inbox --------------------------------
(***************************************************************************)
(* What the receiving half of FileDrop promises the person whose folder it *)
(* fills: a file appears in the received-files directory, or replaces an   *)
(* older one of its name, in one step, whole, and never changes after; a   *)
(* file whose sender announced a checksum has the content it announces     *)
(* (storage/paths.rs "a crash mid-transfer never leaves a half-written     *)
(* file at its final name", transfer/server.rs "atomically renaming it     *)
(* once complete and verified").                                           *)
(***************************************************************************)
EXTENDS Naturals, Sequences

CONSTANTS Names, Versions, FileSize, Cells, None, NoSha

VARIABLE box    \* what the received-files directory shows under each name

ReceivedFile == [sha : Versions \cup {NoSha}, data : Seq(Cells)]

\* The data is the whole content the announced checksum stands for.
Intact(f) == f.sha # NoSha => f.data = [i \in 1..FileSize[f.sha] |-> f.sha]

Init == box = [n \in Names |-> None]

Deliver(n) ==
    /\ box'[n] \in ReceivedFile
    /\ Intact(box'[n])
    /\ box' = [box EXCEPT ![n] = box'[n]]

Next == \E n \in Names : Deliver(n)

Spec == Init /\ [][Next]_box
=============================================================================
