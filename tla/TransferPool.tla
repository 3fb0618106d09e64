---------------------------- MODULE TransferPool ----------------------------
(***************************************************************************)
(* What the send queue promises the caller of send_files: every file that  *)
(* was queued is started once, at most MaxParallel at a time, and ends     *)
(* completed or failed (transfer/queue.rs "Maximum number of transfers     *)
(* actively streaming at once. Additional queued transfers wait").         *)
(***************************************************************************)
EXTENDS Naturals, FiniteSets

CONSTANTS Tasks, MaxParallel

VARIABLE phase

Running == {t \in Tasks : phase[t] = "running"}

Init == phase = [t \in Tasks |-> "new"]

Submit(t) ==
    /\ phase[t] = "new"
    /\ phase' = [phase EXCEPT ![t] = "queued"]

Start(t) ==
    /\ phase[t] = "queued"
    /\ Cardinality(Running) < MaxParallel
    /\ phase' = [phase EXCEPT ![t] = "running"]

Settle(t) ==
    /\ phase[t] = "running"
    /\ \E result \in {"completed", "failed"} : phase' = [phase EXCEPT ![t] = result]

Next == \E t \in Tasks : Submit(t) \/ Start(t) \/ Settle(t)

Spec == Init /\ [][Next]_phase
=============================================================================
